---- MODULE Spec2Model ----
(***************************************************************************)
(* Milkwala Vendor Pro: the customer ledger kept in SQLite                 *)
(* (src/src/db/Database.js) and the screens that write to it.              *)
(*                                                                         *)
(* Tables are sets of rows (records).  Dates are day numbers: the code     *)
(* keeps them as 'yyyy-MM-dd' strings, which SQLite compares               *)
(* lexicographically, i.e. in calendar order; "the day before d" is d - 1. *)
(* Amounts are naturals (REAL columns holding small whole numbers).        *)
(* A nullable SQL/JS value is a sequence of length <= 1: <<>> is NULL.     *)
(***************************************************************************)
EXTENDS Integers, FiniteSets, Sequences, TLC

VARIABLES
    customers,          \* table customers: [id, isActive]
    products,           \* table products: [id, default_price]
    customer_products,  \* table customer_products
    daily_sales,        \* table daily_sales
    payments,           \* table payments
    seq,                \* sqlite_sequence: last AUTOINCREMENT id per table
    expenses,           \* table expenses
    lastOp,             \* name of the storage call that ran last
    thrown,             \* the error that call rejected with; NULL when it resolved
    screen,             \* CustomersScreen: the state of the sale-entry modal
    lookedUp,           \* history: the modal looked for an existing sale since it was opened
    lastSave,           \* history: what the modal's last Save wrote
    dateChangedFrom,    \* history: the existing sale shown when another date was picked
    reportsScreen,      \* ReportsScreen: startDate, endDate and the loaded customerReports
    statement,          \* the last statement ReportsScreen handed to the renderer
    backup,             \* getAllDataForBackup: the queries still running and their results
    schema,             \* the schema of MilkwalaExpo.db: tables, expenses columns, indexes
    initState,          \* initDatabase: its position and how it settled
    dbInitialized,      \* App: the dbInitialized state
    dashboard,          \* DashboardScreen: the queries of loadReports and what is shown
    manageProducts,     \* ManageProductsScreen: the form and the calls of its Save
    productEditor,      \* ManageGlobalProductsScreen: the edit modal and its alerts
    customerForm        \* AddEditCustomerScreen: the form and the call of its Save

db == <<customers, products, customer_products, daily_sales, payments, expenses,
       seq, lastOp, thrown>>
app == <<schema, initState, dbInitialized>>
forms == <<dashboard, manageProducts, productEditor, customerForm>>
side == <<reportsScreen, statement, backup, app, forms>>
ui == <<screen, lookedUp, lastSave, dateChangedFrom, side>>
vars == <<db, ui>>

(* ------------------------------ bounds --------------------------------- *)
MaxSales == 2           \* rows ever inserted into daily_sales
MaxPayments == 1        \* rows ever inserted into payments
MaxDate == 3            \* days 1..MaxDate
MaxExpenses == 1        \* rows ever inserted into expenses

Dates == 1..MaxDate
CustomerIds == {1, 2}
ProductIds == {1, 2}
SaleIds == 1..MaxSales
Quantities == {1, 2}
Prices == {2, 3}

NULL == <<>>
Val(x) == <<x>>

\* new Date() while the application runs: the model stays within one day.
Today == 2
\* pastDate.setDate(today.getDate() - 60)
HistoryDays == 60
\* startOfMonth(new Date())
StartOfMonth == 1

\* The storage calls DashboardScreen.loadReports starts: four directly and
\* two in each of fetchPreviousMonthStats(1) and fetchPreviousMonthStats(2).
DashboardCalls == {"tSales", "mSales", "mExpenses", "allDues",
                   "lastMonthSales", "lastMonthExpenses",
                   "last2MonthSales", "last2MonthExpenses"}

(* ------------------------------ schema --------------------------------- *)
\* The six tables initDatabase creates.
TableNames == {"customers", "products", "customer_products", "daily_sales",
               "payments", "expenses"}
\* The columns of CREATE TABLE expenses.
ExpensesColumns == {"id", "amount", "category", "note", "expense_date"}
\* The expenses table of a database written by an earlier version of the
\* application: the one the three ALTER TABLE migrations are there for.
LegacyExpensesColumns == {"id", "amount", "title", "expense_date"}
\* The four CREATE INDEX statements, in the order they are run.
IndexNames == <<"idx_sales_date", "idx_expenses_date", "idx_payments_date",
                "idx_sales_customer">>
AllIndexes == {IndexNames[i] : i \in 1..Len(IndexNames)}

\* The schema initDatabase is written to arrive at.
CompleteSchema ==
    [tables |-> TableNames, expensesColumns |-> ExpensesColumns, indexes |-> AllIndexes]

\* Database.js:15-125.  PRAGMA foreign_keys = ON; empty tables.
Init ==
    /\ schema = CompleteSchema
    /\ initState = [pc |-> "done", step |-> 0, result |-> "resolved",
                    before |-> CompleteSchema, begin |-> CompleteSchema,
                    tableInfo |-> ExpensesColumns, handled |-> TRUE]
    /\ dbInitialized = TRUE
    /\ customers = {}
    /\ products = {}
    /\ customer_products = {}
    /\ daily_sales = {}
    /\ payments = {}
    /\ expenses = {}
    /\ seq = [customers |-> 0, products |-> 0, daily_sales |-> 0, payments |-> 0,
              expenses |-> 0]
    /\ lastOp = "initDatabase"
    /\ thrown = NULL
    /\ screen = [modalVisible |-> FALSE, selectedCustomer |-> NULL,
                 customerProducts |-> {}, selectedProduct |-> NULL,
                 qty |-> "", saleRate |-> "", selectedDate |-> Today,
                 existingSale |-> NULL, pendingLookup |-> NULL,
                 pendingSaves |-> <<>>, doubleSave |-> NULL]
    /\ lookedUp = FALSE
    /\ lastSave = NULL
    /\ dateChangedFrom = NULL
    /\ reportsScreen = [startDate |-> StartOfMonth, endDate |-> Today,
                        customerReports |-> {}]
    /\ statement = NULL
    /\ backup = NULL
    /\ dashboard = [pending |-> {}, results |-> [call \in DashboardCalls |-> NULL],
                    shown |-> NULL]
    /\ manageProducts = [open |-> FALSE, customerId |-> NULL, allProducts |-> {},
                         customerProducts |-> <<>>, submitted |-> <<>>,
                         pending |-> {}, rejected |-> FALSE, alert |-> NULL,
                         origin |-> {}, retried |-> FALSE]
    /\ productEditor = [products |-> {}, modalVisible |-> FALSE,
                        selectedProduct |-> NULL, price |-> "", pending |-> NULL,
                        alert |-> NULL, updated |-> FALSE, choice |-> NULL,
                        origin |-> NULL, retried |-> FALSE]
    /\ customerForm = [open |-> FALSE, customerId |-> NULL, name |-> <<>>,
                       address |-> <<>>, phone |-> <<>>, pending |-> <<>>,
                       alert |-> NULL]

\* FOREIGN KEY (customer_id) REFERENCES customers(id)
CustomerExists(id) == \E c \in customers : c.id = id
\* FOREIGN KEY (product_id) REFERENCES products(id)
ProductExists(id) == \E p \in products : p.id = id
\* The error runAsync rejects with when a statement breaks a foreign key; the
\* storage functions log it and rethrow it.
ForeignKeyFailed == Val("FOREIGN KEY constraint failed")

(* ------------------------- customers / products ------------------------ *)
addCustomer ==
    /\ seq.customers + 1 \in CustomerIds
    /\ customers' = customers \cup {[id |-> seq.customers + 1, isActive |-> 1]}
    /\ seq' = [seq EXCEPT !.customers = @ + 1]
    /\ lastOp' = "addCustomer"
    /\ thrown' = NULL
    /\ UNCHANGED <<products, customer_products, daily_sales, payments, expenses>>

addProduct(defaultPrice) ==
    /\ seq.products + 1 \in ProductIds
    /\ products' = products \cup {[id |-> seq.products + 1, default_price |-> defaultPrice]}
    /\ seq' = [seq EXCEPT !.products = @ + 1]
    /\ lastOp' = "addProduct"
    /\ thrown' = NULL
    /\ UNCHANGED <<customers, customer_products, daily_sales, payments, expenses>>

\* UPDATE customers SET name = ?, address = ?, phone = ? WHERE id = ?
\* (name, address and phone are not columns of the model).
updateCustomer(id) ==
    /\ customers' = customers
    /\ lastOp' = "updateCustomer"
    /\ thrown' = NULL
    /\ UNCHANGED <<products, customer_products, daily_sales, payments, seq, expenses>>

\* deleteCustomer as DELETE FROM customers WHERE id = ?, with the ON DELETE
\* CASCADE of the three referencing tables.
deleteCustomer_Hard(id) ==
    /\ customers' = {c \in customers : c.id # id}
    /\ customer_products' = {cp \in customer_products : cp.customer_id # id}
    /\ daily_sales' = {s \in daily_sales : s.customer_id # id}
    /\ payments' = {p \in payments : p.customer_id # id}
    /\ lastOp' = "deleteCustomer"
    /\ thrown' = NULL
    /\ UNCHANGED <<products, seq, expenses>>

\* Soft delete: UPDATE customers SET isActive = 0 WHERE id = ?
deleteCustomer(id) ==
    /\ customers' = {IF c.id = id THEN [c EXCEPT !.isActive = 0] ELSE c : c \in customers}
    /\ lastOp' = "deleteCustomer"
    /\ thrown' = NULL
    /\ UNCHANGED <<products, customer_products, daily_sales, payments, seq, expenses>>

\* updateProduct as it would be if it also re-priced the product's sales.
updateProduct_Retroactive(id, defaultPrice) ==
    /\ products' = {IF p.id = id THEN [p EXCEPT !.default_price = defaultPrice] ELSE p
                    : p \in products}
    /\ daily_sales' =
          {IF s.product_id = id
             THEN [s EXCEPT !.price_per_unit = defaultPrice,
                            !.total_amount = s.quantity * defaultPrice]
             ELSE s : s \in daily_sales}
    /\ lastOp' = "updateProduct"
    /\ thrown' = NULL
    /\ UNCHANGED <<customers, customer_products, payments, seq, expenses>>

\* UPDATE products SET name = ?, unit = ?, default_price = ? WHERE id = ?
updateProduct(id, defaultPrice) ==
    /\ products' = {IF p.id = id THEN [p EXCEPT !.default_price = defaultPrice] ELSE p
                    : p \in products}
    /\ lastOp' = "updateProduct"
    /\ thrown' = NULL
    /\ UNCHANGED <<customers, customer_products, daily_sales, payments, seq, expenses>>

(* ------------------------ customer_products ---------------------------- *)
\* assignProductToCustomer without the ON CONFLICT clause and without the
\* primary key that it relies on.
assignProductToCustomer_PlainInsert(customerId, productId, customPrice, defaultQuantity) ==
    /\ IF CustomerExists(customerId) /\ ProductExists(productId)
         THEN /\ customer_products' = customer_products \cup
                    {[customer_id |-> customerId, product_id |-> productId,
                      custom_price |-> customPrice, default_quantity |-> defaultQuantity]}
              /\ thrown' = NULL
         ELSE /\ UNCHANGED customer_products
              /\ thrown' = ForeignKeyFailed
    /\ lastOp' = "assignProductToCustomer"
    /\ UNCHANGED <<customers, products, daily_sales, payments, seq, expenses>>

\* INSERT INTO customer_products ... ON CONFLICT(customer_id, product_id)
\* DO UPDATE SET custom_price = excluded.custom_price,
\*               default_quantity = excluded.default_quantity
assignProductToCustomer(customerId, productId, customPrice, defaultQuantity) ==
    /\ LET conflict == {cp \in customer_products :
                           cp.customer_id = customerId /\ cp.product_id = productId}
       IN IF ~(CustomerExists(customerId) /\ ProductExists(productId))
            THEN /\ UNCHANGED customer_products
                 /\ thrown' = ForeignKeyFailed
            ELSE /\ thrown' = NULL
                 /\ IF conflict = {}
                      THEN customer_products' = customer_products \cup
                             {[customer_id |-> customerId, product_id |-> productId,
                               custom_price |-> customPrice,
                               default_quantity |-> defaultQuantity]}
                      ELSE customer_products' =
                             {IF cp \in conflict
                                THEN [cp EXCEPT !.custom_price = customPrice,
                                                !.default_quantity = defaultQuantity]
                                ELSE cp : cp \in customer_products}
    /\ lastOp' = "assignProductToCustomer"
    /\ UNCHANGED <<customers, products, daily_sales, payments, seq, expenses>>

\* updateAllCustomPricesForProduct without its WHERE clause.
updateAllCustomPricesForProduct_NoWhere(productId, newPrice) ==
    /\ customer_products' =
          {[cp EXCEPT !.custom_price = newPrice] : cp \in customer_products}
    /\ lastOp' = "updateAllCustomPricesForProduct"
    /\ thrown' = NULL
    /\ UNCHANGED <<customers, products, daily_sales, payments, seq, expenses>>

\* UPDATE customer_products SET custom_price = ? WHERE product_id = ?
updateAllCustomPricesForProduct(productId, newPrice) ==
    /\ customer_products' =
          {IF cp.product_id = productId THEN [cp EXCEPT !.custom_price = newPrice] ELSE cp
           : cp \in customer_products}
    /\ lastOp' = "updateAllCustomPricesForProduct"
    /\ thrown' = NULL
    /\ UNCHANGED <<customers, products, daily_sales, payments, seq, expenses>>

(* ------------------------------- sales --------------------------------- *)
\* INSERT INTO daily_sales ...: a plain insert, the table has no UNIQUE key
\* besides id.  A foreign-key violation makes the statement fail.
recordSale(customerId, productId, quantity, pricePerUnit, date) ==
    /\ seq.daily_sales < MaxSales
    /\ LET totalAmount == quantity * pricePerUnit
       IN IF CustomerExists(customerId) /\ ProductExists(productId)
            THEN /\ daily_sales' = daily_sales \cup
                       {[id |-> seq.daily_sales + 1, customer_id |-> customerId,
                         product_id |-> productId, quantity |-> quantity,
                         price_per_unit |-> pricePerUnit, total_amount |-> totalAmount,
                         sale_date |-> date]}
                 /\ seq' = [seq EXCEPT !.daily_sales = @ + 1]
                 /\ thrown' = NULL
            ELSE /\ UNCHANGED <<daily_sales, seq>>
                 /\ thrown' = ForeignKeyFailed
    /\ lastOp' = "recordSale"
    /\ UNCHANGED <<customers, products, customer_products, payments, expenses>>

\* updateSale as it would be if total_amount were left out of the SET list.
updateSale_StaleTotal(saleId, quantity, pricePerUnit, date) ==
    /\ daily_sales' =
            {IF s.id = saleId
               THEN [s EXCEPT !.quantity = quantity, !.price_per_unit = pricePerUnit,
                              !.sale_date = date]
               ELSE s : s \in daily_sales}
    /\ lastOp' = "updateSale"
    /\ thrown' = NULL
    /\ UNCHANGED <<customers, products, customer_products, payments, seq, expenses>>

\* UPDATE daily_sales SET quantity, price_per_unit, total_amount, sale_date WHERE id
updateSale(saleId, quantity, pricePerUnit, date) ==
    /\ LET totalAmount == quantity * pricePerUnit
       IN daily_sales' =
            {IF s.id = saleId
               THEN [s EXCEPT !.quantity = quantity, !.price_per_unit = pricePerUnit,
                              !.total_amount = totalAmount, !.sale_date = date]
               ELSE s : s \in daily_sales}
    /\ lastOp' = "updateSale"
    /\ thrown' = NULL
    /\ UNCHANGED <<customers, products, customer_products, payments, seq, expenses>>

\* DELETE FROM daily_sales WHERE id = ?
deleteSale(saleId) ==
    /\ daily_sales' = {s \in daily_sales : s.id # saleId}
    /\ lastOp' = "deleteSale"
    /\ thrown' = NULL
    /\ UNCHANGED <<customers, products, customer_products, payments, seq, expenses>>

(* ------------------------------ payments ------------------------------- *)
\* INSERT INTO payments (customer_id, amount_paid, payment_date, notes)
recordPayment(customerId, amount, date) ==
    /\ seq.payments < MaxPayments
    /\ IF CustomerExists(customerId)
         THEN /\ payments' = payments \cup
                    {[id |-> seq.payments + 1, customer_id |-> customerId,
                      amount_paid |-> amount, payment_date |-> date]}
              /\ seq' = [seq EXCEPT !.payments = @ + 1]
              /\ thrown' = NULL
         ELSE /\ UNCHANGED <<payments, seq>>
              /\ thrown' = ForeignKeyFailed
    /\ lastOp' = "recordPayment"
    /\ UNCHANGED <<customers, products, customer_products, daily_sales, expenses>>

(* ------------------------------ expenses ------------------------------- *)
\* addExpense as it would be if the amount were booked as a payment of the
\* first customer.
addExpense_AsPayment(amount, date) ==
    /\ seq.expenses < MaxExpenses
    /\ expenses' = expenses \cup
          {[id |-> seq.expenses + 1, amount |-> amount, expense_date |-> date]}
    /\ payments' = payments \cup
          {[id |-> seq.payments + 1, customer_id |-> 1,
            amount_paid |-> amount, payment_date |-> date]}
    /\ seq' = [seq EXCEPT !.expenses = @ + 1, !.payments = @ + 1]
    /\ lastOp' = "addExpense"
    /\ thrown' = NULL
    /\ UNCHANGED <<customers, products, customer_products, daily_sales>>

\* INSERT INTO expenses (amount, category, note, expense_date)
addExpense(amount, date) ==
    /\ seq.expenses < MaxExpenses
    /\ expenses' = expenses \cup
          {[id |-> seq.expenses + 1, amount |-> amount, expense_date |-> date]}
    /\ seq' = [seq EXCEPT !.expenses = @ + 1]
    /\ lastOp' = "addExpense"
    /\ thrown' = NULL
    /\ UNCHANGED <<customers, products, customer_products, daily_sales, payments>>

\* UPDATE expenses SET amount = ?, category = ?, note = ?, expense_date = ? WHERE id = ?
updateExpense(id, amount, date) ==
    /\ expenses' = {IF e.id = id THEN [e EXCEPT !.amount = amount, !.expense_date = date]
                    ELSE e : e \in expenses}
    /\ lastOp' = "updateExpense"
    /\ thrown' = NULL
    /\ UNCHANGED <<customers, products, customer_products, daily_sales, payments, seq>>

\* DELETE FROM expenses WHERE id = ?
deleteExpense(id) ==
    /\ expenses' = {e \in expenses : e.id # id}
    /\ lastOp' = "deleteExpense"
    /\ thrown' = NULL
    /\ UNCHANGED <<customers, products, customer_products, daily_sales, payments, seq>>

(* --------------------------- SQL / JS helpers -------------------------- *)
RECURSIVE SumAmount(_)
SumAmount(S) ==
    IF S = {} THEN 0
    ELSE LET s == CHOOSE x \in S : TRUE
         IN s.amount + SumAmount(S \ {s})

\* SELECT SUM(amount): NULL over no rows.
SqlSumAmount(S) == IF S = {} THEN NULL ELSE Val(SumAmount(S))

RECURSIVE SumTotalAmount(_)
SumTotalAmount(S) ==
    IF S = {} THEN 0
    ELSE LET s == CHOOSE x \in S : TRUE
         IN s.total_amount + SumTotalAmount(S \ {s})

RECURSIVE SumAmountPaid(_)
SumAmountPaid(S) ==
    IF S = {} THEN 0
    ELSE LET s == CHOOSE x \in S : TRUE
         IN s.amount_paid + SumAmountPaid(S \ {s})

\* SELECT SUM(total_amount): NULL over no rows.
SqlSumTotalAmount(S) == IF S = {} THEN NULL ELSE Val(SumTotalAmount(S))
\* SELECT SUM(amount_paid): NULL over no rows.
SqlSumAmountPaid(S) == IF S = {} THEN NULL ELSE Val(SumAmountPaid(S))
\* JS  x || 0  on a number or null.
OrZero(x) == IF x = NULL \/ x = Val(0) THEN 0 ELSE x[1]
\* SQL IFNULL(x, 0)
IfNull0(x) == IF x = NULL THEN 0 ELSE x[1]
\* BETWEEN as it would be with its upper bound excluded.
Between_UpperExclusive(x, a, b) == a <= x /\ x < b
\* x BETWEEN a AND b
Between(x, a, b) == a <= x /\ x <= b

(* ---------------------------- ledger queries --------------------------- *)
\* SELECT SUM(total_amount) FROM daily_sales WHERE sale_date BETWEEN ? AND ?
getTotalSalesForPeriod(startDate, endDate) ==
    OrZero(SqlSumTotalAmount({s \in daily_sales : Between(s.sale_date, startDate, endDate)}))

\* SELECT SUM(amount) FROM expenses WHERE expense_date BETWEEN ? AND ?
getTotalExpensesForPeriod(startDate, endDate) ==
    OrZero(SqlSumAmount({e \in expenses : Between(e.expense_date, startDate, endDate)}))

\* ReportsScreen.loadReports: stats.profit = sales - expenses
profit(startDate, endDate) ==
    getTotalSalesForPeriod(startDate, endDate) - getTotalExpensesForPeriod(startDate, endDate)

\* getTotalDuesForCustomerUpToDate with payment_date < ? instead of <= ?.
getTotalDuesForCustomerUpToDate_StrictPayments(customerId, date) ==
    LET salesRes == SqlSumTotalAmount(
            {s \in daily_sales : s.customer_id = customerId /\ s.sale_date <= date})
        payRes == SqlSumAmountPaid(
            {p \in payments : p.customer_id = customerId /\ p.payment_date < date})
    IN OrZero(salesRes) - OrZero(payRes)

getTotalDuesForCustomerUpToDate(customerId, date) ==
    LET salesRes == SqlSumTotalAmount(
            {s \in daily_sales : s.customer_id = customerId /\ s.sale_date <= date})
        payRes == SqlSumAmountPaid(
            {p \in payments : p.customer_id = customerId /\ p.payment_date <= date})
    IN OrZero(salesRes) - OrZero(payRes)

\* ... FROM daily_sales ds JOIN products p ON ds.product_id = p.id
\*     WHERE ds.customer_id = ? AND ds.sale_date BETWEEN ? AND ?
getSalesForCustomer(customerId, startDate, endDate) ==
    {s \in daily_sales : /\ s.customer_id = customerId
                         /\ ProductExists(s.product_id)
                         /\ Between(s.sale_date, startDate, endDate)}

getPaymentsForCustomer(customerId, startDate, endDate) ==
    {p \in payments : /\ p.customer_id = customerId
                      /\ Between(p.payment_date, startDate, endDate)}

\* getCustomerDues without WHERE c.isActive = 1.
getCustomerDues_AllCustomers ==
    {[id |-> c.id,
      total_due |->
          OrZero(SqlSumTotalAmount({s \in daily_sales : s.customer_id = c.id}))
        - OrZero(SqlSumAmountPaid({p \in payments : p.customer_id = c.id}))]
     : c \in customers}

\* One row per active customer; total_due is computed over all dates.
getCustomerDues ==
    {[id |-> c.id,
      total_due |->
          OrZero(SqlSumTotalAmount({s \in daily_sales : s.customer_id = c.id}))
        - OrZero(SqlSumAmountPaid({p \in payments : p.customer_id = c.id}))]
     : c \in {x \in customers : x.isActive = 1}}

getComprehensiveCustomerDues(startDate, endDate) ==
    {LET lifetime_sales ==
             IfNull0(SqlSumTotalAmount({s \in daily_sales : s.customer_id = c.id}))
         lifetime_payments ==
             IfNull0(SqlSumAmountPaid({p \in payments : p.customer_id = c.id}))
         period_sales ==
             IfNull0(SqlSumTotalAmount({s \in daily_sales :
                 s.customer_id = c.id /\ Between(s.sale_date, startDate, endDate)}))
         period_payments ==
             IfNull0(SqlSumAmountPaid({p \in payments :
                 p.customer_id = c.id /\ Between(p.payment_date, startDate, endDate)}))
     IN [id |-> c.id,
         total_due |-> lifetime_sales - lifetime_payments,
         period_due |-> period_sales - period_payments,
         period_sales |-> period_sales,
         period_payments |-> period_payments]
     : c \in {x \in customers : x.isActive = 1}}

(* ----------------------------- statements ------------------------------ *)
\* CustomerDetailScreen.generateBillPDF: the figures of the bill summary.
generateBillPDF(customerId, startDate, endDate) ==
    LET periodSales == getSalesForCustomer(customerId, startDate, endDate)
        periodPayments == getPaymentsForCustomer(customerId, startDate, endDate)
        previousDues == getTotalDuesForCustomerUpToDate(customerId, startDate)
        totalSalesAmount == SumTotalAmount(periodSales)
        totalPaymentsAmount == SumAmountPaid(periodPayments)
    IN [previousDues |-> previousDues,
        totalSalesAmount |-> totalSalesAmount,
        totalPaymentsAmount |-> totalPaymentsAmount,
        netPayable |-> previousDues + totalSalesAmount - totalPaymentsAmount]

\* ReportsScreen.loadReports: the customer rows kept for the list
\* (Math.abs(total_due) > 0.5; amounts are whole numbers here).
customerReports(startDate, endDate) ==
    {c \in getComprehensiveCustomerDues(startDate, endDate) : c.total_due # 0}

\* ReportsScreen.generateCustomerPDF: the figures of the statement summary.
generateCustomerPDF(customer) ==
    LET currentTotalDue == customer.total_due
        periodDiff == customer.period_sales - customer.period_payments
        computedOpening == currentTotalDue - periodDiff
    IN [openingBalance |-> computedOpening,
        periodSales |-> customer.period_sales,
        periodPayments |-> customer.period_payments,
        netPayable |-> currentTotalDue]

(* ------------------- CustomersScreen: sale-entry modal ----------------- *)
Digits == <<"0", "1", "2", "3", "4", "5", "6", "7", "8", "9">>
\* JS String(n) for the whole numbers -9..9.
String(n) == IF n < 0 THEN "-" \o Digits[1 - n] ELSE Digits[n + 1]
\* The number a text holds, as qty * saleRate and the REAL columns take it.
Number(t) == CHOOSE n \in -9..9 : String(n) = t
\* String(x || '') on a number: 0 is falsy.
StringOrEmpty(x) == IF x = 0 THEN "" ELSE String(x)

\* SELECT p.*, cp.custom_price, cp.default_quantity FROM products p
\* JOIN customer_products cp ON p.id = cp.product_id WHERE cp.customer_id = ?
getCustomerProducts(customerId) ==
    {[id |-> p.id, default_price |-> p.default_price,
      custom_price |-> cp.custom_price, default_quantity |-> cp.default_quantity]
     : <<p, cp>> \in {x \in products \X customer_products :
                         x[1].id = x[2].product_id /\ x[2].customer_id = customerId}}

\* getFirstAsync(SELECT * FROM daily_sales WHERE customer_id = ? AND
\* product_id = ? AND sale_date = ?): every row the statement may return first.
getSaleForCustomerProductAndDate(customerId, productId, date) ==
    {s \in daily_sales : /\ s.customer_id = customerId
                         /\ s.product_id = productId
                         /\ s.sale_date = date}

\* getAllCustomers: the ids of the rows with isActive = 1 (the list items).
getAllCustomers == {c.id : c \in {x \in customers : x.isActive = 1}}

\* handleProductSelect(product, custId), reading selectedDate as `date`:
\* the values it may leave in selectedProduct, existingSale, qty, saleRate.
handleProductSelect(product, custId, date) ==
    LET found == getSaleForCustomerProductAndDate(custId, product.id, date)
        history == {h \in getSalesForCustomer(custId, Today - HistoryDays, Today) :
                       h.product_id = product.id}
        \* .sort(newest first)[0]: a row of the latest date
        lastSales == {h \in history : \A g \in history : g.sale_date <= h.sale_date}
        currentEffectiveRate == StringOrEmpty(product.custom_price)
    IN IF found # {}
         THEN {[selectedProduct |-> Val(product), existingSale |-> Val(sale),
                qty |-> String(sale.quantity), saleRate |-> String(sale.price_per_unit)]
               : sale \in found}
         ELSE IF lastSales # {}
                THEN {[selectedProduct |-> Val(product), existingSale |-> NULL,
                       qty |-> String(lastSale.quantity), saleRate |-> currentEffectiveRate]
                      : lastSale \in lastSales}
                ELSE {[selectedProduct |-> Val(product), existingSale |-> NULL,
                       qty |-> StringOrEmpty(product.default_quantity),
                       saleRate |-> currentEffectiveRate]}

\* openEntryModal(customerEntry).  handleProductSelect is the closure of the
\* render in which the button was drawn, so it formats the selectedDate of
\* that render, not the date set by setSelectedDate(new Date()) just before.
openEntryModal(customerId) ==
    /\ ~screen.modalVisible
    /\ customerId \in getAllCustomers
    /\ LET prods == getCustomerProducts(customerId)
       IN IF prods # {}
            THEN \E productToSelect \in prods :
                   \E o \in handleProductSelect(productToSelect, customerId,
                                                screen.selectedDate) :
                      screen' = [screen EXCEPT
                                   !.selectedCustomer = Val(customerId),
                                   !.customerProducts = prods,
                                   !.selectedDate = Today,
                                   !.selectedProduct = o.selectedProduct,
                                   !.existingSale = o.existingSale,
                                   !.qty = o.qty,
                                   !.saleRate = o.saleRate,
                                   !.modalVisible = TRUE]
            ELSE screen' = [screen EXCEPT
                               !.selectedCustomer = Val(customerId),
                               !.customerProducts = prods,
                               !.selectedDate = Today,
                               !.modalVisible = TRUE]
    /\ lookedUp' = (getCustomerProducts(customerId) # {})
    /\ dateChangedFrom' = NULL
    /\ UNCHANGED <<db, lastSave, side>>

\* A product chip of the open modal: handleProductSelect(p, selectedCustomer.customer_id)
selectProductChip(product) ==
    /\ screen.modalVisible
    /\ product \in screen.customerProducts
    /\ \E o \in handleProductSelect(product, screen.selectedCustomer[1], screen.selectedDate) :
          screen' = [screen EXCEPT
                       !.selectedProduct = o.selectedProduct,
                       !.existingSale = o.existingSale,
                       !.qty = o.qty,
                       !.saleRate = o.saleRate]
    /\ lookedUp' = TRUE
    /\ dateChangedFrom' = NULL
    /\ UNCHANGED <<db, lastSave, side>>

\* handleDateChange(event, date) with a date picked.
handleDateChange(date) ==
    /\ screen.modalVisible
    /\ IF screen.selectedCustomer # NULL /\ screen.selectedProduct # NULL
         THEN LET found == getSaleForCustomerProductAndDate(
                               screen.selectedCustomer[1], screen.selectedProduct[1].id, date)
              IN IF found # {}
                   THEN \E sale \in found :
                          screen' = [screen EXCEPT
                                       !.selectedDate = date,
                                       !.existingSale = Val(sale),
                                       !.qty = String(sale.quantity),
                                       !.saleRate = String(sale.price_per_unit)]
                   ELSE screen' = [screen EXCEPT !.selectedDate = date,
                                                 !.existingSale = NULL]
         ELSE screen' = [screen EXCEPT !.selectedDate = date]
    /\ lookedUp' = (lookedUp \/ (screen.selectedCustomer # NULL /\ screen.selectedProduct # NULL))
    /\ dateChangedFrom' =
          IF screen.existingSale # NULL /\ date # screen.selectedDate
            THEN screen.existingSale
            ELSE IF dateChangedFrom # NULL /\ date = dateChangedFrom[1].sale_date
                   THEN NULL
                   ELSE dateChangedFrom
    /\ UNCHANGED <<db, lastSave, side>>

\* onChangeText={setQty}
setQty(text) ==
    /\ screen.modalVisible
    /\ screen' = [screen EXCEPT !.qty = text]
    /\ UNCHANGED <<db, lookedUp, lastSave, dateChangedFrom, side>>

\* onChangeText={setSaleRate}
setSaleRate(text) ==
    /\ screen.modalVisible
    /\ screen' = [screen EXCEPT !.saleRate = text]
    /\ UNCHANGED <<db, lookedUp, lastSave, dateChangedFrom, side>>

\* The close button and onRequestClose: setModalVisible(false)
closeEntryModal ==
    /\ screen.modalVisible
    /\ screen' = [screen EXCEPT !.modalVisible = FALSE]
    /\ dateChangedFrom' = NULL
    /\ UNCHANGED <<db, lookedUp, lastSave, side>>

\* lastSave after a Save of key <<customer, product, date>> that wrote row `id`:
\* saves counts the Saves made in a row for that key, each after a lookup by
\* the modal; firstId is the row the first of them wrote.
Logged(key, id, call) ==
    IF ~lookedUp THEN NULL
    ELSE IF lastSave # NULL /\ lastSave[1].key = key
      THEN Val([key |-> key, saves |-> 2, firstId |-> lastSave[1].firstId,
                id |-> id, call |-> call,
                qty |-> Number(screen.qty), rate |-> Number(screen.saleRate)])
      ELSE Val([key |-> key, saves |-> 1, firstId |-> id,
                id |-> id, call |-> call,
                qty |-> Number(screen.qty), rate |-> Number(screen.saleRate)])

\* handleSave with every field filled: updateSale on the held existingSale,
\* else recordSale; then the modal closes.
handleSave ==
    /\ screen.modalVisible
    /\ ~(screen.selectedProduct = NULL \/ screen.qty = "" \/ screen.saleRate = "")
    /\ LET dateString == screen.selectedDate
           customerId == screen.selectedCustomer[1]
           productId == screen.selectedProduct[1].id
       IN IF screen.existingSale # NULL
            THEN /\ updateSale(screen.existingSale[1].id, Number(screen.qty),
                               Number(screen.saleRate), dateString)
                 /\ lastSave' = Logged(<<customerId, productId, dateString>>,
                                       screen.existingSale[1].id, "updateSale")
            ELSE /\ recordSale(customerId, productId, Number(screen.qty),
                               Number(screen.saleRate), dateString)
                 /\ lastSave' = Logged(<<customerId, productId, dateString>>,
                                       seq.daily_sales + 1, "recordSale")
    /\ screen' = IF thrown' = NULL THEN [screen EXCEPT !.modalVisible = FALSE] ELSE screen
    /\ UNCHANGED <<lookedUp, dateChangedFrom, side>>

\* handleDateChange(event, date) with a date picked, up to the call of
\* getSaleForCustomerProductAndDate: the date is set and the lookup is pending.
handleDateChangeStarts(date) ==
    /\ screen.modalVisible
    /\ screen' = IF screen.selectedCustomer # NULL /\ screen.selectedProduct # NULL
                   THEN [screen EXCEPT
                           !.selectedDate = date,
                           !.pendingLookup = Val([customerId |-> screen.selectedCustomer[1],
                                                  productId |-> screen.selectedProduct[1].id,
                                                  date |-> date])]
                   ELSE [screen EXCEPT !.selectedDate = date]
    /\ UNCHANGED <<db, lookedUp, lastSave, dateChangedFrom, side>>

\* The .then of handleDateChange: the lookup returns and its result is set,
\* whatever the modal shows by then.
dateLookupCompletes ==
    /\ screen.pendingLookup # NULL
    /\ LET call == screen.pendingLookup[1]
           found == getSaleForCustomerProductAndDate(call.customerId, call.productId,
                                                     call.date)
       IN IF found # {}
            THEN \E sale \in found :
                   screen' = [screen EXCEPT
                                !.pendingLookup = NULL,
                                !.existingSale = Val(sale),
                                !.qty = String(sale.quantity),
                                !.saleRate = String(sale.price_per_unit)]
            ELSE screen' = [screen EXCEPT !.pendingLookup = NULL,
                                          !.existingSale = NULL]
    /\ UNCHANGED <<db, lookedUp, lastSave, dateChangedFrom, side>>

\* handleSave up to the call of updateSale / recordSale: the call is pending.
\* doubleSave notes a Save pressed while the first Save of the same key, a
\* key without a stored sale, is still pending.
handleSaveStarts ==
    /\ screen.modalVisible
    /\ ~(screen.selectedProduct = NULL \/ screen.qty = "" \/ screen.saleRate = "")
    /\ LET dateString == screen.selectedDate
           customerId == screen.selectedCustomer[1]
           productId == screen.selectedProduct[1].id
           key == <<customerId, productId, dateString>>
           call == IF screen.existingSale # NULL
                     THEN [call |-> "updateSale", id |-> screen.existingSale[1].id,
                           key |-> key, qty |-> Number(screen.qty),
                           rate |-> Number(screen.saleRate)]
                     ELSE [call |-> "recordSale", id |-> 0,
                           key |-> key, qty |-> Number(screen.qty),
                           rate |-> Number(screen.saleRate)]
       IN screen' = [screen EXCEPT
                       !.pendingSaves = Append(@, call),
                       !.doubleSave =
                           IF /\ Len(screen.pendingSaves) = 1
                              /\ screen.pendingSaves[1].key = key
                              /\ getSaleForCustomerProductAndDate(customerId, productId,
                                                                  dateString) = {}
                             THEN Val(key) ELSE @]
    /\ UNCHANGED <<db, lookedUp, lastSave, dateChangedFrom, side>>

\* The oldest pending call of a Save completes; its .then closes the modal.
saveCompletes ==
    /\ screen.pendingSaves # <<>>
    /\ LET call == Head(screen.pendingSaves)
       IN IF call.call = "updateSale"
            THEN updateSale(call.id, call.qty, call.rate, call.key[3])
            ELSE recordSale(call.key[1], call.key[2], call.qty, call.rate, call.key[3])
    /\ screen' = IF thrown' = NULL
                   THEN [screen EXCEPT !.pendingSaves = Tail(@), !.modalVisible = FALSE]
                   ELSE [screen EXCEPT !.pendingSaves = Tail(@)]
    /\ UNCHANGED <<lookedUp, lastSave, dateChangedFrom, side>>

(* ---------------------------- ReportsScreen ---------------------------- *)
\* handleFilterChange / the date pickers: setStartDate, setEndDate.  The list
\* is reloaded by a later loadReports.
pickReportDates(startDate, endDate) ==
    /\ reportsScreen' = [reportsScreen EXCEPT !.startDate = startDate,
                                              !.endDate = endDate]
    /\ UNCHANGED <<db, screen, lookedUp, lastSave, dateChangedFrom, statement, backup, app, forms>>

\* loadReports (useFocusEffect): setCustomerReports of the rows with a due.
loadReports ==
    /\ reportsScreen' =
          [reportsScreen EXCEPT !.customerReports =
               customerReports(reportsScreen.startDate, reportsScreen.endDate)]
    /\ UNCHANGED <<db, screen, lookedUp, lastSave, dateChangedFrom, statement, backup, app, forms>>

\* The PDF button of a list row: generateCustomerPDF(item).  The lines are
\* fetched now; the summary figures come from the row of the loaded list.
pressCustomerPDF(customer) ==
    /\ customer \in reportsScreen.customerReports
    /\ statement' =
          Val([sales |-> getSalesForCustomer(
                             customer.id, reportsScreen.startDate, reportsScreen.endDate),
               payments |-> getPaymentsForCustomer(
                             customer.id, reportsScreen.startDate, reportsScreen.endDate),
               summary |-> generateCustomerPDF(customer)])
    /\ UNCHANGED <<db, screen, lookedUp, lastSave, dateChangedFrom, reportsScreen, backup, app, forms>>

(* ------------------------------- backup -------------------------------- *)
\* The five queries of getAllDataForBackup, by the key of the result they fill.
BackupTables == {"customers", "products", "sales", "payments", "expenses"}

\* What each of the five queries returns when run on the current tables.
BackupView ==
    [customers |-> customers,
     products |-> products,
     sales |-> {s \in daily_sales : Between(s.sale_date, StartOfMonth, Today)},
     payments |-> {p \in payments : Between(p.payment_date, StartOfMonth, Today)},
     expenses |-> {e \in expenses : Between(e.expense_date, StartOfMonth, Today)}]

\* DashboardScreen.handleBackup -> getAllDataForBackup: Promise.all starts the
\* five getAllAsync calls; none has run yet.  seen collects the views of the
\* database from now until the last query has run.
handleBackup ==
    /\ IF backup = NULL THEN TRUE ELSE backup[1].pending = {}
    /\ backup' = Val([pending |-> BackupTables,
                      data |-> [table \in BackupTables |-> {}],
                      seen |-> {BackupView}])
    /\ UNCHANGED <<db, screen, lookedUp, lastSave, dateChangedFrom, reportsScreen, statement, app, forms>>

\* One of the getAllAsync calls runs.  The calls are not inside a
\* transaction, so they run in any order and other statements run between them.
backupQuery(table) ==
    /\ backup # NULL
    /\ table \in backup[1].pending
    /\ backup' = Val([backup[1] EXCEPT !.pending = @ \ {table},
                                       !.data[table] = BackupView[table]])
    /\ UNCHANGED <<db, screen, lookedUp, lastSave, dateChangedFrom, reportsScreen, statement, app, forms>>

\* A storage call made while the backup may be running: the view of the
\* database it leaves is recorded in seen.
duringBackup ==
    /\ backup' = IF backup # NULL /\ backup[1].pending # {}
                   THEN Val([backup[1] EXCEPT !.seen = @ \cup {BackupView'}])
                   ELSE backup
    /\ UNCHANGED <<screen, lookedUp, lastSave, dateChangedFrom, reportsScreen, statement, app, forms>>

(* --------------------------- DashboardScreen --------------------------- *)
\* The days of the model all lie in the current month; the month `offset`
\* months back is a span of days before StartOfMonth.
DaysPerMonth == 31
PreviousMonth(offset) ==
    <<StartOfMonth - offset * DaysPerMonth, StartOfMonth - (offset - 1) * DaysPerMonth - 1>>

\* What each storage call of loadReports returns on the current tables.
DashboardView ==
    [tSales |-> getTotalSalesForPeriod(Today, Today),
     mSales |-> getTotalSalesForPeriod(StartOfMonth, Today),
     mExpenses |-> getTotalExpensesForPeriod(StartOfMonth, Today),
     allDues |-> getCustomerDues,
     lastMonthSales |-> getTotalSalesForPeriod(PreviousMonth(1)[1], PreviousMonth(1)[2]),
     lastMonthExpenses |-> getTotalExpensesForPeriod(PreviousMonth(1)[1], PreviousMonth(1)[2]),
     last2MonthSales |-> getTotalSalesForPeriod(PreviousMonth(2)[1], PreviousMonth(2)[2]),
     last2MonthExpenses |-> getTotalExpensesForPeriod(PreviousMonth(2)[1], PreviousMonth(2)[2])]

\* loadReports (useFocusEffect, onRefresh): Promise.all starts every query
\* at once, the two fetchPreviousMonthStats calls starting two each.
dashboardLoadReports ==
    /\ dashboard.pending = {}
    /\ dashboard' = [dashboard EXCEPT !.pending = DashboardCalls,
                                      !.results = [call \in DashboardCalls |-> NULL]]
    /\ UNCHANGED <<db, screen, lookedUp, lastSave, dateChangedFrom, reportsScreen,
                   statement, backup, app, manageProducts, productEditor, customerForm>>

\* One of the queries returns.  When the last has, the states are set at once:
\* setTodaySales ... setCustomerDues(allDues.filter(d => d.total_due > 0)) ...
dashboardQuery(call) ==
    /\ call \in dashboard.pending
    /\ LET results == [dashboard.results EXCEPT ![call] = Val(DashboardView[call])]
       IN dashboard' =
            [pending |-> dashboard.pending \ {call},
             results |-> results,
             shown |-> IF dashboard.pending = {call}
                         THEN Val([todaySales |-> results["tSales"][1],
                                   monthSales |-> results["mSales"][1],
                                   monthExpenses |-> results["mExpenses"][1],
                                   customerDues |-> {d \in results["allDues"][1] :
                                                       d.total_due > 0},
                                   lastStats |->
                                      [sales |-> results["lastMonthSales"][1],
                                       expenses |-> results["lastMonthExpenses"][1]],
                                   last2Stats |->
                                      [sales |-> results["last2MonthSales"][1],
                                       expenses |-> results["last2MonthExpenses"][1]]])
                         ELSE dashboard.shown]
    /\ UNCHANGED <<db, screen, lookedUp, lastSave, dateChangedFrom, reportsScreen,
                   statement, backup, app, manageProducts, productEditor, customerForm>>

(* ------------------------- ManageProductsScreen ------------------------ *)
\* The error a storage call rejects with when the statement itself fails
\* (disk full, database locked, ...): catch (error) { ...; throw error; }.
StorageFailed == Val("storage call failed")

\* A storage function whose statement fails: nothing is written, the error
\* is logged and rethrown.
storageCallFails(op) ==
    /\ lastOp' = op
    /\ thrown' = StorageFailed
    /\ UNCHANGED <<customers, products, customer_products, daily_sales, payments,
                   expenses, seq>>

\* navigation.navigate('ManageProducts', { customerId }) and loadData:
\* getAllProducts().then(setAllProducts); getCustomerProducts(customerId)
\* .then(assigned => setCustomerProducts(assignedMap)).
openManageProducts(customerId) ==
    /\ CustomerExists(customerId)
    /\ LET assigned == getCustomerProducts(customerId)
       IN manageProducts' =
            [open |-> TRUE, customerId |-> Val(customerId), allProducts |-> products,
             customerProducts |->
                 [id \in {a.id : a \in assigned} |->
                     LET a == CHOOSE x \in assigned : x.id = id
                     IN [custom_price |-> a.custom_price,
                         default_quantity |-> a.default_quantity]],
             submitted |-> <<>>, pending |-> manageProducts.pending,
             rejected |-> FALSE, alert |-> NULL, origin |-> {}, retried |-> FALSE]
    /\ UNCHANGED <<db, screen, lookedUp, lastSave, dateChangedFrom, reportsScreen,
                   statement, backup, app, dashboard, productEditor, customerForm>>

\* handleToggleProduct: a checked product is dropped from customerProducts,
\* an unchecked one enters it with the product's default price and quantity 1.
handleToggleProduct(productId) ==
    /\ manageProducts.open
    /\ \E product \in manageProducts.allProducts : product.id = productId
    /\ LET cp == manageProducts.customerProducts
           product == CHOOSE x \in manageProducts.allProducts : x.id = productId
       IN manageProducts' =
            [manageProducts EXCEPT !.customerProducts =
                IF productId \in DOMAIN cp
                  THEN [id \in DOMAIN cp \ {productId} |-> cp[id]]
                  ELSE [id \in DOMAIN cp \cup {productId} |->
                          IF id = productId
                            THEN [custom_price |-> product.default_price,
                                  default_quantity |-> 1]
                            ELSE cp[id]]]
    /\ UNCHANGED <<db, screen, lookedUp, lastSave, dateChangedFrom, reportsScreen,
                   statement, backup, app, dashboard, productEditor, customerForm>>

\* parseFloat(value) || 0
ParseFloatOrZero(value) == IF value = "" THEN 0 ELSE Number(value)

\* handleValueChange(productId, 'custom_price', text): the price field of a
\* checked product.
handleValueChange(productId, value) ==
    /\ manageProducts.open
    /\ productId \in DOMAIN manageProducts.customerProducts
    /\ manageProducts' =
          [manageProducts EXCEPT !.customerProducts[productId].custom_price =
                                     ParseFloatOrZero(value)]
    /\ UNCHANGED <<db, screen, lookedUp, lastSave, dateChangedFrom, reportsScreen,
                   statement, backup, app, dashboard, productEditor, customerForm>>

\* handleSaveAssignments: one assignProductToCustomer call per entry of
\* customerProducts, all started before any has completed; Promise.all of
\* no calls resolves at once.  submitted is the customerProducts the calls
\* were built from; origin is customer_products as it was when this form was
\* first submitted, and retried tells a Save that repeats, on a table the
\* failed Save has written to, the Save that ended in the error alert.
handleSaveAssignments ==
    /\ manageProducts.open
    /\ LET cp == manageProducts.customerProducts
           calls == {[product_id |-> id, custom_price |-> cp[id].custom_price,
                      default_quantity |-> cp[id].default_quantity] : id \in DOMAIN cp}
           retry == manageProducts.alert = Val("Error") /\ cp = manageProducts.submitted
           origin == IF retry THEN manageProducts.origin ELSE customer_products
       IN manageProducts' =
            IF calls = {}
              THEN [manageProducts EXCEPT !.submitted = cp, !.alert = Val("Success"),
                                          !.open = FALSE, !.origin = origin,
                                          !.retried = FALSE]
              ELSE [manageProducts EXCEPT !.submitted = cp, !.pending = @ \cup calls,
                                          !.rejected = FALSE, !.alert = NULL,
                                          !.origin = origin,
                                          !.retried = retry /\ customer_products # origin]
    /\ UNCHANGED <<db, screen, lookedUp, lastSave, dateChangedFrom, reportsScreen,
                   statement, backup, app, dashboard, productEditor, customerForm>>

\* One assignProductToCustomer call of the Save completes.  Promise.all
\* rejects with the first call that rejects (catch: the "Error" alert) and
\* resolves when every call has resolved (then: the "Success" alert and
\* navigation.goBack()).  ok: the statement itself did not fail.
assignCallCompletes(call, ok) ==
    /\ call \in manageProducts.pending
    /\ IF ok
         THEN assignProductToCustomer(manageProducts.customerId[1], call.product_id,
                                      call.custom_price, call.default_quantity)
         ELSE storageCallFails("assignProductToCustomer")
    /\ LET pending == manageProducts.pending \ {call}
           rejected == manageProducts.rejected \/ thrown' # NULL
       IN manageProducts' =
            [manageProducts EXCEPT
               !.pending = pending,
               !.rejected = rejected,
               !.alert = IF rejected THEN Val("Error")
                         ELSE IF pending = {} THEN Val("Success") ELSE @,
               !.open = IF ~rejected /\ pending = {} THEN FALSE ELSE @]
    /\ UNCHANGED <<screen, lookedUp, lastSave, dateChangedFrom, reportsScreen,
                   statement, backup, app, dashboard, productEditor, customerForm>>

\* The storage calls that have been started and have not completed.
InFlight ==
    {<<"loadReports", call>> : call \in dashboard.pending}
    \cup {<<"handleSaveAssignments", call>> : call \in manageProducts.pending}
    \cup {<<"getAllDataForBackup", table>> :
              table \in IF backup = NULL THEN {} ELSE backup[1].pending}

(* ---------------------- ManageGlobalProductsScreen --------------------- *)
EditorUnchanged ==
    UNCHANGED <<screen, lookedUp, lastSave, dateChangedFrom, reportsScreen, statement,
                backup, app, dashboard, manageProducts, customerForm>>

\* loadProducts (useFocusEffect): getAllProducts().then(setProducts)
editorLoadProducts ==
    /\ productEditor' = [productEditor EXCEPT !.products = products]
    /\ UNCHANGED db
    /\ EditorUnchanged

\* openEditModal(product): a row of the list is tapped.
openEditModal(product) ==
    /\ product \in productEditor.products
    /\ productEditor' = [productEditor EXCEPT !.selectedProduct = Val(product),
                                              !.price = String(product.default_price),
                                              !.modalVisible = TRUE]
    /\ UNCHANGED db
    /\ EditorUnchanged

\* The price field of the edit modal: onChangeText={setPrice}
editorSetPrice(text) ==
    /\ productEditor.modalVisible
    /\ productEditor' = [productEditor EXCEPT !.price = text]
    /\ UNCHANGED db
    /\ EditorUnchanged

\* closeModal: setModalVisible(false); setSelectedProduct(null)
closeModal(editor) == [editor EXCEPT !.modalVisible = FALSE, !.selectedProduct = NULL]

\* handleUpdate: the validation alerts, or updateProduct is started with the
\* parsed price.  origin keeps the tables as they were when this product and
\* price were first submitted; retried tells a Save that repeats the one
\* that ended in an error.
handleUpdate ==
    /\ productEditor.modalVisible
    /\ productEditor.selectedProduct # NULL
    /\ IF productEditor.price = ""
         THEN productEditor' = [productEditor EXCEPT !.alert =
                                   Val([title |-> "Validation Error"])]
         ELSE LET parsedPrice == Number(productEditor.price)
                  call == [name |-> "updateProduct",
                           id |-> productEditor.selectedProduct[1].id,
                           price |-> parsedPrice]
                  retry == /\ productEditor.alert # NULL
                           /\ productEditor.alert[1].title = "Error"
                           /\ productEditor.origin # NULL
                           /\ productEditor.origin[1].id = call.id
                           /\ productEditor.origin[1].price = call.price
              IN IF parsedPrice < 0
                   THEN productEditor' = [productEditor EXCEPT !.alert =
                                             Val([title |-> "Validation Error"])]
                   ELSE productEditor' =
                          [productEditor EXCEPT
                             !.pending = Val(call), !.alert = NULL,
                             !.updated = FALSE, !.choice = NULL,
                             !.retried = retry,
                             !.origin = IF retry THEN @
                                        ELSE Val([id |-> call.id, price |-> call.price,
                                                  products |-> products,
                                                  customer_products |-> customer_products])]
    /\ UNCHANGED db
    /\ EditorUnchanged

\* updateProduct(...) completes: .then shows the "Update Custom Prices?"
\* alert, whose buttons keep the product id and the parsed price; .catch
\* shows "Failed to update product."
updateProductCompletes(ok) ==
    /\ productEditor.pending # NULL
    /\ productEditor.pending[1].name = "updateProduct"
    /\ LET call == productEditor.pending[1]
       IN IF ok
            THEN /\ updateProduct(call.id, call.price)
                 /\ productEditor' =
                       [productEditor EXCEPT
                          !.pending = NULL, !.updated = TRUE,
                          !.alert = Val([title |-> "Update Custom Prices?",
                                         id |-> call.id, price |-> call.price])]
            ELSE /\ storageCallFails("updateProduct")
                 /\ productEditor' = [productEditor EXCEPT
                                         !.pending = NULL,
                                         !.alert = Val([title |-> "Error"])]
    /\ EditorUnchanged

\* "No, Keep Custom Prices" that propagates the price all the same.
pressNoKeepCustomPrices_Propagates ==
    /\ productEditor.alert # NULL
    /\ productEditor.alert[1].title = "Update Custom Prices?"
    /\ updateAllCustomPricesForProduct(productEditor.alert[1].id, productEditor.alert[1].price)
    /\ productEditor' =
          [closeModal(productEditor) EXCEPT !.choice = Val("No"),
                                            !.alert = Val([title |-> "Success"]),
                                            !.products = products]
    /\ EditorUnchanged

\* "Yes, Update All": updateAllCustomPricesForProduct is started.
pressYesUpdateAll ==
    /\ productEditor.alert # NULL
    /\ productEditor.alert[1].title = "Update Custom Prices?"
    /\ productEditor' =
          [productEditor EXCEPT
             !.choice = Val("Yes"), !.alert = NULL,
             !.pending = Val([name |-> "updateAllCustomPricesForProduct",
                              id |-> productEditor.alert[1].id,
                              price |-> productEditor.alert[1].price])]
    /\ UNCHANGED db
    /\ EditorUnchanged

\* "No, Keep Custom Prices": the success alert, closeModal, loadProducts.
pressNoKeepCustomPrices ==
    /\ productEditor.alert # NULL
    /\ productEditor.alert[1].title = "Update Custom Prices?"
    /\ productEditor' =
          [closeModal(productEditor) EXCEPT !.choice = Val("No"),
                                            !.alert = Val([title |-> "Success"]),
                                            !.products = products]
    /\ UNCHANGED db
    /\ EditorUnchanged

\* updateAllCustomPricesForProduct(...) completes: .then shows the success
\* alert, closes the modal and reloads the list; .catch shows "Could not
\* update customer prices."
updateAllCompletes(ok) ==
    /\ productEditor.pending # NULL
    /\ productEditor.pending[1].name = "updateAllCustomPricesForProduct"
    /\ LET call == productEditor.pending[1]
       IN IF ok
            THEN /\ updateAllCustomPricesForProduct(call.id, call.price)
                 /\ productEditor' =
                       [closeModal(productEditor) EXCEPT
                          !.pending = NULL,
                          !.alert = Val([title |-> "Success"]),
                          !.products = products]
            ELSE /\ storageCallFails("updateAllCustomPricesForProduct")
                 /\ productEditor' = [productEditor EXCEPT
                                         !.pending = NULL,
                                         !.alert = Val([title |-> "Error"])]
    /\ EditorUnchanged

(* ------------------------- CustomerDetailScreen ------------------------ *)
\* new Date().setFullYear(getFullYear() + 1): the distance from today to
\* futureDate, on the model's scale of days.
OneYear == 1
futureDate == Today + OneYear

\* loadData: getTotalDuesForCustomerUpToDate(customerId, futureDate).then(setTotalDue)
detailTotalDue(customerId) == getTotalDuesForCustomerUpToDate(customerId, futureDate)

(* ------------------------ AddEditCustomerScreen ------------------------ *)
\* The text of a form field is a sequence of characters.
Repeat(char, n) == [i \in 1..n |-> char]

\* String.prototype.trim(): the text without its leading and trailing spaces.
RECURSIVE trim(_)
trim(text) ==
    IF text = <<>> THEN text
    ELSE IF Head(text) = " " THEN trim(Tail(text))
    ELSE IF text[Len(text)] = " " THEN trim(SubSeq(text, 1, Len(text) - 1))
    ELSE text

\* phone.trim().length !== 10, and maxLength={10} of the phone field
PhoneLength == 10

FormUnchanged ==
    UNCHANGED <<screen, lookedUp, lastSave, dateChangedFrom, reportsScreen, statement,
                backup, app, dashboard, manageProducts, productEditor>>

\* navigation.navigate('AddEditCustomer', { customerId }): without a
\* customerId the fields are empty; with one they are set from the row
\* getCustomerById returns, which an earlier Save of this form wrote.
openCustomerForm(customerId, name, address, phone) ==
    /\ customerId # NULL => CustomerExists(customerId[1])
    /\ customerId = NULL => name = <<>> /\ address = <<>> /\ phone = <<>>
    /\ customerForm' = [open |-> TRUE, customerId |-> customerId, name |-> name,
                        address |-> address, phone |-> phone,
                        pending |-> customerForm.pending, alert |-> NULL]
    /\ UNCHANGED db
    /\ FormUnchanged

\* onChangeText={setName}
setName(text) ==
    /\ customerForm.open
    /\ customerForm' = [customerForm EXCEPT !.name = text]
    /\ UNCHANGED db
    /\ FormUnchanged

\* onChangeText={setAddress}
setAddress(text) ==
    /\ customerForm.open
    /\ customerForm' = [customerForm EXCEPT !.address = text]
    /\ UNCHANGED db
    /\ FormUnchanged

\* onChangeText={setPhone}, maxLength={10}
setPhone(text) ==
    /\ customerForm.open
    /\ Len(text) <= PhoneLength
    /\ customerForm' = [customerForm EXCEPT !.phone = text]
    /\ UNCHANGED db
    /\ FormUnchanged

\* handleSave: the two validation alerts, or updateCustomer / addCustomer is
\* started with the fields as they are. The Save button stays enabled while
\* a call is pending.
customerHandleSave ==
    /\ customerForm.open
    /\ customerForm' =
          IF trim(customerForm.name) = <<>>
            THEN [customerForm EXCEPT !.alert = Val("Validation Error")]
          ELSE IF /\ customerForm.phone # <<>>
                  /\ Len(trim(customerForm.phone)) > 0
                  /\ Len(trim(customerForm.phone)) # PhoneLength
            THEN [customerForm EXCEPT !.alert = Val("Validation Error")]
            ELSE [customerForm EXCEPT
                    !.alert = NULL,
                    !.pending = Append(@,
                        [call |-> IF customerForm.customerId # NULL
                                    THEN "updateCustomer" ELSE "addCustomer",
                         customerId |-> customerForm.customerId,
                         name |-> customerForm.name,
                         address |-> customerForm.address,
                         phone |-> customerForm.phone])]
    /\ UNCHANGED db
    /\ FormUnchanged

\* The oldest call of a Save completes: .then shows "Success" and goes back,
\* .catch shows "Could not save customer."
customerSaveCompletes(ok) ==
    /\ customerForm.pending # <<>>
    /\ LET call == Head(customerForm.pending)
       IN /\ IF ~ok
               THEN storageCallFails(call.call)
               ELSE IF call.call = "updateCustomer"
                      THEN updateCustomer(call.customerId[1])
                      ELSE addCustomer
          /\ customerForm' =
                IF ok
                  THEN [customerForm EXCEPT !.pending = Tail(@), !.open = FALSE,
                                            !.alert = Val("Success")]
                  ELSE [customerForm EXCEPT !.pending = Tail(@),
                                            !.alert = Val("Error")]
    /\ FormUnchanged

(* ----------------------------- initDatabase ---------------------------- *)
\* The CREATE TABLE IF NOT EXISTS statements, in the order they are run.
TableOrder == <<"customers", "products", "customer_products", "daily_sales",
                "payments", "expenses">>

\* catch (error) { console.error(...); throw error; }: initDatabase rejects.
initRejected == [initState EXCEPT !.pc = "done", !.result = "rejected"]
\* catch (migrationError) { console.error(...) } and the lines after it:
\* console.log("Database initialized successfully."); initDatabase resolves.
initResolved == [initState EXCEPT !.pc = "done", !.result = "resolved"]

\* await db.execAsync('PRAGMA foreign_keys = ON;'), then withTransactionAsync
\* begins its transaction.  ok: the statement resolved.
initPragma(ok) ==
    /\ initState.pc = "pragma"
    /\ initState' = IF ok THEN [initState EXCEPT !.pc = "createTable", !.step = 1,
                                                 !.begin = schema]
                         ELSE initRejected
    /\ UNCHANGED <<schema, dbInitialized>>

\* One CREATE TABLE IF NOT EXISTS inside withTransactionAsync.  After the
\* sixth the transaction commits; a statement that fails rolls it back.
initCreateTable(ok) ==
    /\ initState.pc = "createTable"
    /\ LET table == TableOrder[initState.step]
       IN IF ok
            THEN /\ schema' =
                      [schema EXCEPT
                         !.tables = @ \cup {table},
                         !.expensesColumns =
                             IF table = "expenses" /\ table \notin schema.tables
                               THEN ExpensesColumns ELSE @]
                 /\ initState' = IF initState.step = Len(TableOrder)
                                    THEN [initState EXCEPT !.pc = "tableInfo", !.step = 1]
                                    ELSE [initState EXCEPT !.step = @ + 1]
            ELSE /\ schema' = initState.begin
                 /\ initState' = initRejected
    /\ UNCHANGED dbInitialized

\* const tableInfo = await db.getAllAsync("PRAGMA table_info(expenses)")
initTableInfo(ok) ==
    /\ initState.pc = "tableInfo"
    /\ initState' = IF ok THEN [initState EXCEPT !.pc = "addNote",
                                                 !.tableInfo = schema.expensesColumns]
                         ELSE initResolved
    /\ UNCHANGED <<schema, dbInitialized>>

\* One of the three ALTER TABLE expenses migrations: it runs when needed is
\* true of tableInfo, and then either alters the columns or fails.
initMigration(pc, needed, columns, next, ok) ==
    /\ initState.pc = pc
    /\ IF ~needed
         THEN /\ ok
              /\ initState' = [initState EXCEPT !.pc = next]
              /\ UNCHANGED schema
         ELSE IF ok
              THEN /\ schema' = [schema EXCEPT !.expensesColumns = columns]
                   /\ initState' = [initState EXCEPT !.pc = next]
              ELSE /\ initState' = initResolved
                   /\ UNCHANGED schema
    /\ UNCHANGED dbInitialized

\* if (!tableInfo.some(column => column.name === 'note')) ALTER TABLE ... ADD COLUMN note
initAddNote(ok) ==
    initMigration("addNote", "note" \notin initState.tableInfo,
                  schema.expensesColumns \cup {"note"}, "addCategory", ok)

\* if (!tableInfo.some(column => column.name === 'category')) ALTER TABLE ... ADD COLUMN category
initAddCategory(ok) ==
    initMigration("addCategory", "category" \notin initState.tableInfo,
                  schema.expensesColumns \cup {"category"}, "dropTitle", ok)

\* if (tableInfo.some(column => column.name === 'title')) ALTER TABLE ... DROP COLUMN title
initDropTitle(ok) ==
    initMigration("dropTitle", "title" \in initState.tableInfo,
                  schema.expensesColumns \ {"title"}, "createIndex", ok)

\* One CREATE INDEX IF NOT EXISTS; after the fourth, initDatabase resolves.
initCreateIndex(ok) ==
    /\ initState.pc = "createIndex"
    /\ IF ok
         THEN /\ schema' = [schema EXCEPT !.indexes = @ \cup {IndexNames[initState.step]}]
              /\ initState' = IF initState.step = Len(IndexNames)
                                 THEN initResolved
                                 ELSE [initState EXCEPT !.step = @ + 1]
         ELSE /\ initState' = initResolved
              /\ UNCHANGED schema
    /\ UNCHANGED dbInitialized

(* --------------------------------- App --------------------------------- *)
\* initDatabase().then(() => { ...; setDbInitialized(true); })
appThen ==
    /\ initState.result = "resolved"
    /\ ~initState.handled
    /\ initState' = [initState EXCEPT !.handled = TRUE]
    /\ dbInitialized' = TRUE
    /\ UNCHANGED schema

\* .catch(err => { console.error(...) }) that also lets the application in.
appCatch_SetsInitialized ==
    /\ initState.result = "rejected"
    /\ ~initState.handled
    /\ initState' = [initState EXCEPT !.handled = TRUE]
    /\ dbInitialized' = TRUE
    /\ UNCHANGED schema

\* .catch(err => { console.error('Database initialization failed:', err); })
appCatch ==
    /\ initState.result = "rejected"
    /\ ~initState.handled
    /\ initState' = [initState EXCEPT !.handled = TRUE]
    /\ UNCHANGED <<schema, dbInitialized>>

\* if (!dbInitialized) return the "Initializing Database..." view; otherwise
\* the navigator with the screens is rendered, and only then do the screens'
\* effects and handlers exist to call the storage functions.
Mounted == dbInitialized

(* --------------------------- specifications ---------------------------- *)
Setup ==
    \/ addCustomer /\ UNCHANGED ui
    \/ \E r \in Prices : addProduct(r) /\ UNCHANGED ui

SaleOps ==
    \/ \E c \in CustomerIds, q \in Quantities, r \in Prices, d \in Dates :
          recordSale(c, 1, q, r, d) /\ UNCHANGED ui
    \/ \E id \in SaleIds, q \in Quantities, r \in Prices, d \in Dates :
          updateSale(id, q, r, d) /\ UNCHANGED ui
    \/ \E id \in SaleIds : deleteSale(id) /\ UNCHANGED ui

Next ==
    \/ addCustomer /\ UNCHANGED ui
    \/ addProduct(2) /\ UNCHANGED ui
    \/ SaleOps

Spec == Init /\ [][Next]_vars

\* The ledger: sales and payments of every customer on every day.
LedgerOps ==
    \/ \E c \in CustomerIds, d \in Dates : recordSale(c, 1, 1, 3, d) /\ UNCHANGED ui
    \/ \E c \in CustomerIds, d \in Dates : recordPayment(c, 1, d) /\ UNCHANGED ui

NextLedger ==
    \/ addCustomer /\ UNCHANGED ui
    \/ addProduct(3) /\ UNCHANGED ui
    \/ LedgerOps

SpecLedger == Init /\ [][NextLedger]_vars

\* Prices: the catalogue, the per-customer assignments and recorded sales.
DefaultQuantities == {1, 2}

AssignmentOps ==
    \/ \E c \in CustomerIds, p \in ProductIds, r \in Prices, q \in DefaultQuantities :
          assignProductToCustomer(c, p, r, q) /\ UNCHANGED ui
    \/ \E p \in ProductIds, r \in Prices : updateAllCustomPricesForProduct(p, r) /\ UNCHANGED ui

NextAssignments == Setup \/ AssignmentOps

SpecAssignments == Init /\ [][NextAssignments]_vars

PricingOps ==
    \/ \E c \in CustomerIds, p \in ProductIds, r \in Prices :
          assignProductToCustomer(c, p, r, 1) /\ UNCHANGED ui
    \/ \E p \in ProductIds, r \in Prices : updateAllCustomPricesForProduct(p, r) /\ UNCHANGED ui
    \/ \E p \in ProductIds, r \in Prices : updateProduct(p, r) /\ UNCHANGED ui
    \/ \E p \in ProductIds : recordSale(1, p, 2, 2, 1) /\ UNCHANGED ui

NextPricing == Setup \/ PricingOps

SpecPricing == Init /\ [][NextPricing]_vars

\* The sale-entry modal used on customers that have product 1 assigned.
QtyTexts == {"1", "2"}

ModalOps ==
    \/ \E c \in CustomerIds : openEntryModal(c)
    \/ \E p \in screen.customerProducts : selectProductChip(p)
    \/ \E d \in Dates : handleDateChange(d)
    \/ \E t \in QtyTexts : setQty(t)
    \/ closeEntryModal
    \/ handleSave

NextModal ==
    \/ addCustomer /\ UNCHANGED ui
    \/ addProduct(2) /\ UNCHANGED ui
    \/ \E c \in CustomerIds : assignProductToCustomer(c, 1, 2, 1) /\ UNCHANGED ui
    \/ ModalOps

SpecModal == Init /\ [][NextModal]_vars

\* Rates: handleValueChange stores parseFloat(value) || 0, so an assignment's
\* custom_price is 0 once its field was cleared.
CustomPrices == {0, 2}

RateOps ==
    \/ \E c \in CustomerIds, p \in ProductIds, r \in CustomPrices :
          assignProductToCustomer(c, p, r, 1) /\ UNCHANGED ui
    \/ \E p \in ProductIds, r \in Prices : updateProduct(p, r) /\ UNCHANGED ui
    \/ \E c \in CustomerIds, d \in Dates : recordSale(c, 1, 1, 2, d) /\ UNCHANGED ui

NextRates ==
    \/ addCustomer /\ UNCHANGED ui
    \/ addProduct(3) /\ UNCHANGED ui
    \/ RateOps

SpecRates == Init /\ [][NextRates]_vars

\* Deactivation: customers with a ledger and an assignment are deactivated,
\* and the storage layer keeps serving calls made for them.
DeactivationOps ==
    \/ \E c \in CustomerIds : deleteCustomer(c) /\ UNCHANGED ui
    \/ \E d \in Dates : recordSale(1, 1, 1, 3, d) /\ UNCHANGED ui
    \/ \E d \in Dates : recordPayment(1, 1, d) /\ UNCHANGED ui
    \/ assignProductToCustomer(1, 1, 2, 1) /\ UNCHANGED ui

NextDeactivation ==
    \/ addCustomer /\ UNCHANGED ui
    \/ addProduct(3) /\ UNCHANGED ui
    \/ DeactivationOps

SpecDeactivation == Init /\ [][NextDeactivation]_vars

\* Expenses next to a customer's ledger.
ExpenseIds == 1..MaxExpenses

ExpenseOps ==
    \/ \E d \in Dates : addExpense(2, d) /\ UNCHANGED ui
    \/ \E id \in ExpenseIds : updateExpense(id, 1, Today) /\ UNCHANGED ui
    \/ \E id \in ExpenseIds : deleteExpense(id) /\ UNCHANGED ui
    \/ recordSale(1, 1, 1, 3, Today) /\ UNCHANGED ui
    \/ recordPayment(1, 1, Today) /\ UNCHANGED ui

NextExpenses ==
    \/ addCustomer /\ UNCHANGED ui
    \/ addProduct(3) /\ UNCHANGED ui
    \/ ExpenseOps

SpecExpenses == Init /\ [][NextExpenses]_vars

\* Periods: one customer's sales and payments on every day, next to a
\* customer without any.
PeriodOps ==
    \/ \E d \in Dates : recordSale(1, 1, 1, 3, d) /\ UNCHANGED ui
    \/ \E d \in Dates : recordPayment(1, 1, d) /\ UNCHANGED ui

NextPeriods ==
    \/ addCustomer /\ UNCHANGED ui
    \/ addProduct(3) /\ UNCHANGED ui
    \/ PeriodOps

SpecPeriods == Init /\ [][NextPeriods]_vars

\* Sale entry: what may be typed into the Qty and Rate fields of the modal
\* (keyboardType="numeric" still takes a sign, and text can be pasted).
EntryTexts == {"0", "-1"}

EntryOps ==
    \/ openEntryModal(1)
    \/ \E t \in EntryTexts : setQty(t)
    \/ \E t \in EntryTexts : setSaleRate(t)
    \/ handleSave

NextEntry ==
    \/ addCustomer /\ UNCHANGED ui
    \/ addProduct(2) /\ UNCHANGED ui
    \/ assignProductToCustomer(1, 1, 2, 1) /\ UNCHANGED ui
    \/ EntryOps

SpecEntry == Init /\ [][NextEntry]_vars

\* Storage calls addressed to ids that may or may not exist.
AddressedOps ==
    \/ \E c \in CustomerIds, p \in ProductIds :
          recordSale(c, p, 1, 2, Today) /\ UNCHANGED ui
    \/ \E id \in SaleIds : updateSale(id, 2, 3, Today) /\ UNCHANGED ui
    \/ \E id \in SaleIds : deleteSale(id) /\ UNCHANGED ui
    \/ \E c \in CustomerIds : updateCustomer(c) /\ UNCHANGED ui
    \/ \E c \in CustomerIds : deleteCustomer(c) /\ UNCHANGED ui
    \/ \E p \in ProductIds : updateProduct(p, 3) /\ UNCHANGED ui
    \/ \E c \in CustomerIds : recordPayment(c, 1, Today) /\ UNCHANGED ui

NextAddressed ==
    \/ addCustomer /\ UNCHANGED ui
    \/ addProduct(2) /\ UNCHANGED ui
    \/ AddressedOps

SpecAddressed == Init /\ [][NextAddressed]_vars

\* Moving an entry: the date picker of the modal used on customer 1.
DateChangeOps ==
    \/ openEntryModal(1)
    \/ \E d \in Dates : handleDateChange(d)
    \/ closeEntryModal
    \/ handleSave

NextDateChange ==
    \/ addCustomer /\ UNCHANGED ui
    \/ addProduct(2) /\ UNCHANGED ui
    \/ assignProductToCustomer(1, 1, 2, 1) /\ UNCHANGED ui
    \/ DateChangeOps

SpecDateChange == Init /\ [][NextDateChange]_vars

\* Statements: the Reports list and its PDF button while the ledger of
\* customer 1 grows.
ReportPeriods == {<<StartOfMonth, Today>>, <<Today, MaxDate>>}

ReportOps ==
    \/ \E period \in ReportPeriods : pickReportDates(period[1], period[2])
    \/ loadReports
    \/ \E customer \in reportsScreen.customerReports : pressCustomerPDF(customer)
    \/ \E d \in Dates : recordSale(1, 1, 1, 3, d) /\ UNCHANGED ui
    \/ \E d \in Dates : recordPayment(1, 1, d) /\ UNCHANGED ui

NextReports ==
    \/ addCustomer /\ UNCHANGED ui
    \/ addProduct(3) /\ UNCHANGED ui
    \/ ReportOps

SpecReports == Init /\ [][NextReports]_vars

\* Backup: writes issued while the queries of a backup are running.
BackupOps ==
    \/ handleBackup
    \/ \E table \in BackupTables : backupQuery(table)
    \/ addCustomer /\ duringBackup
    \/ recordSale(1, 1, 1, 3, Today) /\ duringBackup
    \/ recordPayment(1, 1, Today) /\ duringBackup
    \/ addExpense(2, Today) /\ duringBackup

NextBackup ==
    \/ backup = NULL /\ addProduct(3) /\ UNCHANGED ui
    \/ BackupOps

SpecBackup == Init /\ [][NextBackup]_vars

\* Start-up: App calls initDatabase on a database file that is new, was
\* written by an earlier version, or is already complete; the screens act
\* once they are mounted.
InitialSchemas ==
    {[tables |-> {}, expensesColumns |-> {}, indexes |-> {}],
     [tables |-> TableNames, expensesColumns |-> LegacyExpensesColumns, indexes |-> {}],
     CompleteSchema}

InitBoot ==
    /\ schema \in InitialSchemas
    /\ initState = [pc |-> "pragma", step |-> 0, result |-> "pending",
                    before |-> schema, begin |-> schema, tableInfo |-> {},
                    handled |-> FALSE]
    /\ dbInitialized = FALSE
    /\ customers = {}
    /\ products = {}
    /\ customer_products = {}
    /\ daily_sales = {}
    /\ payments = {}
    /\ expenses = {}
    /\ seq = [customers |-> 0, products |-> 0, daily_sales |-> 0, payments |-> 0,
              expenses |-> 0]
    /\ lastOp = "initDatabase"
    /\ thrown = NULL
    /\ screen = [modalVisible |-> FALSE, selectedCustomer |-> NULL,
                 customerProducts |-> {}, selectedProduct |-> NULL,
                 qty |-> "", saleRate |-> "", selectedDate |-> Today,
                 existingSale |-> NULL, pendingLookup |-> NULL,
                 pendingSaves |-> <<>>, doubleSave |-> NULL]
    /\ lookedUp = FALSE
    /\ lastSave = NULL
    /\ dateChangedFrom = NULL
    /\ reportsScreen = [startDate |-> StartOfMonth, endDate |-> Today,
                        customerReports |-> {}]
    /\ statement = NULL
    /\ backup = NULL
    /\ dashboard = [pending |-> {}, results |-> [call \in DashboardCalls |-> NULL],
                    shown |-> NULL]
    /\ manageProducts = [open |-> FALSE, customerId |-> NULL, allProducts |-> {},
                         customerProducts |-> <<>>, submitted |-> <<>>,
                         pending |-> {}, rejected |-> FALSE, alert |-> NULL,
                         origin |-> {}, retried |-> FALSE]
    /\ productEditor = [products |-> {}, modalVisible |-> FALSE,
                        selectedProduct |-> NULL, price |-> "", pending |-> NULL,
                        alert |-> NULL, updated |-> FALSE, choice |-> NULL,
                        origin |-> NULL, retried |-> FALSE]
    /\ customerForm = [open |-> FALSE, customerId |-> NULL, name |-> <<>>,
                       address |-> <<>>, phone |-> <<>>, pending |-> <<>>,
                       alert |-> NULL]

UNCHANGED_Ledger ==
    UNCHANGED <<db, screen, lookedUp, lastSave, dateChangedFrom, reportsScreen,
                statement, backup, forms>>

BootOps ==
    \/ \E ok \in BOOLEAN : initPragma(ok) /\ UNCHANGED_Ledger
    \/ \E ok \in BOOLEAN : initCreateTable(ok) /\ UNCHANGED_Ledger
    \/ \E ok \in BOOLEAN : initTableInfo(ok) /\ UNCHANGED_Ledger
    \/ \E ok \in BOOLEAN : initAddNote(ok) /\ UNCHANGED_Ledger
    \/ \E ok \in BOOLEAN : initAddCategory(ok) /\ UNCHANGED_Ledger
    \/ \E ok \in BOOLEAN : initDropTitle(ok) /\ UNCHANGED_Ledger
    \/ \E ok \in BOOLEAN : initCreateIndex(ok) /\ UNCHANGED_Ledger
    \/ appThen /\ UNCHANGED_Ledger
    \/ appCatch /\ UNCHANGED_Ledger

NextBoot ==
    \/ BootOps
    \/ Mounted /\ addCustomer /\ UNCHANGED ui
    \/ Mounted /\ addProduct(3) /\ UNCHANGED ui
    \/ Mounted /\ recordSale(1, 1, 1, 3, Today) /\ UNCHANGED ui
    \/ Mounted /\ addExpense(2, Today) /\ UNCHANGED ui

SpecBoot == InitBoot /\ [][NextBoot]_vars

\* The screens that start several storage calls in one go.
InFlightOps ==
    \/ dashboardLoadReports
    \/ \E call \in DashboardCalls : dashboardQuery(call)
    \/ ~manageProducts.open /\ openManageProducts(1)
    \/ \E p \in ProductIds : handleToggleProduct(p)
    \/ manageProducts.pending = {} /\ handleSaveAssignments
    \/ \E call \in manageProducts.pending, ok \in BOOLEAN : assignCallCompletes(call, ok)

NextInFlight ==
    \/ customers = {} /\ addCustomer /\ UNCHANGED ui
    \/ ~manageProducts.open /\ addProduct(3) /\ UNCHANGED ui
    \/ InFlightOps

SpecInFlight == Init /\ [][NextInFlight]_vars

\* The assignment form of customer 1: products are checked and unchecked
\* and the form is saved, each call of the Save succeeding or failing.
AssignSaveOps ==
    \/ ~manageProducts.open /\ openManageProducts(1)
    \/ \E p \in ProductIds : handleToggleProduct(p)
    \/ manageProducts.pending = {} /\ handleSaveAssignments
    \/ \E call \in manageProducts.pending, ok \in BOOLEAN : assignCallCompletes(call, ok)

NextAssignSave ==
    \/ addCustomer /\ UNCHANGED ui
    \/ \E r \in Prices : addProduct(r) /\ UNCHANGED ui
    \/ AssignSaveOps

SpecAssignSave == Init /\ [][NextAssignSave]_vars

\* The global product editor: a product's price is edited while customers
\* hold custom prices for it.
PriceTexts == {"3", "", "-1"}

EditorOps ==
    \/ editorLoadProducts
    \/ \E product \in productEditor.products :
          productEditor.pending = NULL /\ openEditModal(product)
    \/ \E text \in PriceTexts : editorSetPrice(text)
    \/ productEditor.pending = NULL /\ handleUpdate
    \/ \E ok \in BOOLEAN : updateProductCompletes(ok)
    \/ pressYesUpdateAll
    \/ pressNoKeepCustomPrices
    \/ \E ok \in BOOLEAN : updateAllCompletes(ok)

NextEditor ==
    \/ customers = {} /\ addCustomer /\ UNCHANGED ui
    \/ products = {} /\ addProduct(2) /\ UNCHANGED ui
    \/ customer_products = {} /\ assignProductToCustomer(1, 1, 2, 1) /\ UNCHANGED ui
    \/ EditorOps

SpecEditor == Init /\ [][NextEditor]_vars

\* The two bulk operations, each retried after one of its calls failed.
\* One form is used at a time.
EditorIdle ==
    /\ ~productEditor.modalVisible
    /\ productEditor.pending = NULL
    /\ productEditor.alert = NULL \/ productEditor.alert = Val([title |-> "Success"])

AssignFormIdle == ~manageProducts.open /\ manageProducts.pending = {}

RetryOps ==
    \/ ~manageProducts.open /\ EditorIdle /\ openManageProducts(1)
    \/ \E p \in ProductIds : manageProducts.pending = {} /\ handleToggleProduct(p)
    \/ manageProducts.pending = {} /\ handleValueChange(1, "3")
    \/ manageProducts.pending = {} /\ handleSaveAssignments
    \/ \E call \in manageProducts.pending, ok \in BOOLEAN : assignCallCompletes(call, ok)
    \/ AssignFormIdle /\ editorLoadProducts
    \/ \E product \in productEditor.products :
          AssignFormIdle /\ productEditor.pending = NULL /\ openEditModal(product)
    \/ editorSetPrice("3")
    \/ productEditor.pending = NULL /\ handleUpdate
    \/ \E ok \in BOOLEAN : updateProductCompletes(ok)
    \/ pressYesUpdateAll
    \/ pressNoKeepCustomPrices
    \/ \E ok \in BOOLEAN : updateAllCompletes(ok)

NextRetry ==
    \/ customers = {} /\ addCustomer /\ UNCHANGED ui
    \/ AssignFormIdle /\ EditorIdle /\ addProduct(2) /\ UNCHANGED ui
    \/ RetryOps

SpecRetry == Init /\ [][NextRetry]_vars

\* The customer form: names and phone numbers that are blank, padded,
\* too short and well-formed.
NameTexts == {<<>>, <<" ">>, <<"A">>, <<" ", "A">>}
AddressTexts == {<<>>, <<"X">>}
PhoneTexts == {<<>>, Repeat(" ", 3), Repeat("9", PhoneLength - 1),
               Repeat("9", PhoneLength), <<" ">> \o Repeat("9", PhoneLength - 1),
               <<" ">> \o Repeat("9", PhoneLength - 2) \o <<" ">>}
\* What an earlier Save can have stored: the fields of a call it made.
StoredNames == {text \in NameTexts : trim(text) # <<>>}
StoredPhones == {text \in PhoneTexts : Len(trim(text)) \in {0, PhoneLength}}
MaxPendingSaves == 2

FormOps ==
    \/ ~customerForm.open /\ customerForm.pending = <<>>
          /\ openCustomerForm(NULL, <<>>, <<>>, <<>>)
    \/ \E c \in CustomerIds, name \in StoredNames, phone \in StoredPhones :
          ~customerForm.open /\ customerForm.pending = <<>>
             /\ openCustomerForm(Val(c), name, <<>>, phone)
    \/ \E text \in NameTexts : setName(text)
    \/ \E text \in AddressTexts : setAddress(text)
    \/ \E text \in PhoneTexts : setPhone(text)
    \/ Len(customerForm.pending) < MaxPendingSaves /\ customerHandleSave
    \/ \E ok \in BOOLEAN : customerSaveCompletes(ok)

NextForm ==
    \/ FormOps
    \/ \E c \in CustomerIds : deleteCustomer(c) /\ UNCHANGED ui

SpecForm == Init /\ [][NextForm]_vars

\* The sale-entry modal with its lookups and saves in flight: customer 1 has
\* product 1 assigned, customer 2 has no product.
MaxPendingCalls == 2

RaceOps ==
    \/ \E c \in CustomerIds : screen.pendingSaves = <<>> /\ openEntryModal(c)
    \/ \E d \in Dates : screen.pendingLookup = NULL /\ handleDateChangeStarts(d)
    \/ dateLookupCompletes
    \/ closeEntryModal
    \/ Len(screen.pendingSaves) < MaxPendingCalls /\ handleSaveStarts
    \/ saveCompletes

NextRaces ==
    \/ seq.customers < 2 /\ addCustomer /\ UNCHANGED ui
    \/ products = {} /\ addProduct(2) /\ UNCHANGED ui
    \/ customer_products = {} /\ assignProductToCustomer(1, 1, 2, 1) /\ UNCHANGED ui
    \/ RaceOps

SpecRaces == Init /\ [][NextRaces]_vars

\* The customer detail screen: entries dated today, on futureDate and after
\* it (no date picker of the app has a maximumDate).
DetailDates == {Today, futureDate, futureDate + 1}

DetailOps ==
    \/ \E c \in CustomerIds, d \in DetailDates : recordSale(c, 1, 1, 3, d) /\ UNCHANGED ui
    \/ \E c \in CustomerIds, d \in DetailDates : recordPayment(c, 1, d) /\ UNCHANGED ui
    \/ \E c \in CustomerIds : deleteCustomer(c) /\ UNCHANGED ui

NextDetail ==
    \/ addCustomer /\ UNCHANGED ui
    \/ addProduct(3) /\ UNCHANGED ui
    \/ DetailOps

SpecDetail == Init /\ [][NextDetail]_vars

(* ------------------------------ claims --------------------------------- *)
SameKey(s1, s2) ==
    /\ s1.customer_id = s2.customer_id
    /\ s1.product_id = s2.product_id
    /\ s1.sale_date = s2.sale_date

\* C1: after any sequence of recordSale, updateSale and deleteSale calls there
\* is at most one daily_sales row per (customer_id, product_id, sale_date).
C1_AtMostOneSalePerKey ==
    \A s1 \in daily_sales, s2 \in daily_sales : SameKey(s1, s2) => s1 = s2

\* C7: every sale row satisfies total_amount = quantity * price_per_unit,
\* after recordSale and after every updateSale.
C7_TotalIsQuantityTimesPrice ==
    \A s \in daily_sales : s.total_amount = s.quantity * s.price_per_unit

\* A row whose quantity and price were both changed by updateSale.
C7_Witness ==
    /\ lastOp = "updateSale"
    /\ \E s \in daily_sales : s.quantity = 2 /\ s.price_per_unit = 3 /\ s.total_amount = 6

\* The due of a customer built up day by day: due(0) = 0,
\* due(d) = due(d-1) + sales dated d - payments dated d.
RECURSIVE DueAsOf(_, _)
DueAsOf(c, d) ==
    IF d <= 0 THEN 0
    ELSE DueAsOf(c, d - 1)
         + SumTotalAmount({s \in daily_sales : s.customer_id = c /\ s.sale_date = d})
         - SumAmountPaid({p \in payments : p.customer_id = c /\ p.payment_date = d})

\* C3: the Net Payable of the customer-detail bill for [startDate, endDate]
\* equals getTotalDuesForCustomerUpToDate(customer, endDate).
C3_ClosingBalanceIsDueAtEnd ==
    \A c \in CustomerIds, startDate \in Dates, endDate \in Dates :
        startDate <= endDate =>
            generateBillPDF(c, startDate, endDate).netPayable
                = getTotalDuesForCustomerUpToDate(c, endDate)

\* C4: getTotalDuesForCustomerUpToDate(c, d) is the sum of c's sales dated
\* <= d minus the sum of c's payments dated <= d, the day d included in
\* both, and 0 when c has neither.
C4_TotalDueIsSalesMinusPayments ==
    \A c \in CustomerIds, d \in 0..MaxDate :
        getTotalDuesForCustomerUpToDate(c, d) = DueAsOf(c, d)

\* Customer 1 has a sale and a payment dated on the boundary day itself,
\* customer 2 exists and has nothing.
C4_Witness ==
    /\ \E s \in daily_sales : s.customer_id = 1 /\ s.sale_date = 2 /\ s.total_amount = 3
    /\ \E p \in payments : p.customer_id = 1 /\ p.payment_date = 2
    /\ getTotalDuesForCustomerUpToDate(1, 1) = 0
    /\ getTotalDuesForCustomerUpToDate(1, 2) = 2
    /\ CustomerExists(2)
    /\ getTotalDuesForCustomerUpToDate(2, MaxDate) = 0

\* C5: for a report period ending at d, the total_due that
\* getComprehensiveCustomerDues and getCustomerDues report for an active
\* customer equals getTotalDuesForCustomerUpToDate(c, d).
C5_ListedDueIsDueAtEnd ==
    \A startDate \in Dates, d \in Dates :
        startDate <= d =>
            /\ \A r \in getComprehensiveCustomerDues(startDate, d) :
                   r.total_due = getTotalDuesForCustomerUpToDate(r.id, d)
            /\ \A r \in getCustomerDues :
                   r.total_due = getTotalDuesForCustomerUpToDate(r.id, d)

\* C6: the Opening Balance of a statement for [startDate, endDate] is the
\* total due as of the day before startDate, on the Reports statement and on
\* the customer-detail bill.
C6_OpeningIsDueBeforeStart ==
    \A startDate \in Dates, endDate \in Dates :
        startDate <= endDate =>
            /\ \A r \in customerReports(startDate, endDate) :
                   generateCustomerPDF(r).openingBalance
                       = getTotalDuesForCustomerUpToDate(r.id, startDate - 1)
            /\ \A c \in CustomerIds :
                   generateBillPDF(c, startDate, endDate).previousDues
                       = getTotalDuesForCustomerUpToDate(c, startDate - 1)

SamePair(a, b) == a.customer_id = b.customer_id /\ a.product_id = b.product_id

C8_UniquePairs ==
    \A a \in customer_products, b \in customer_products : SamePair(a, b) => a = b

C8_AssignStep ==
    (lastOp' = "assignProductToCustomer" /\ thrown' = NULL) =>
        \E c \in CustomerIds, p \in ProductIds, r \in Prices, q \in DefaultQuantities :
            LET row == [customer_id |-> c, product_id |-> p,
                        custom_price |-> r, default_quantity |-> q]
            IN customer_products' =
                   {x \in customer_products : ~SamePair(x, row)} \cup {row}

\* C8: there is at most one customer_products row per (customer_id,
\* product_id); assignProductToCustomer on an existing pair replaces that
\* row's custom_price and default_quantity and leaves every other row alone.
C8_AssignIsUpsert == []C8_UniquePairs /\ [][C8_AssignStep]_vars

\* Pair (1, 1) holds the values of a later assignment next to another pair.
C8_Witness ==
    /\ lastOp = "assignProductToCustomer"
    /\ Cardinality(customer_products) = 4
    /\ \E x \in customer_products :
          x.customer_id = 1 /\ x.product_id = 1 /\ x.custom_price = 3
          /\ x.default_quantity = 2
    /\ \E x \in customer_products :
          x.customer_id = 2 /\ x.product_id = 1 /\ x.custom_price = 2

C9_PropagateStep ==
    lastOp' = "updateAllCustomPricesForProduct" =>
        \E P \in ProductIds, price \in Prices :
            /\ \A x \in customer_products' : x.product_id = P => x.custom_price = price
            /\ \A x \in customer_products : x.product_id # P => x \in customer_products'
            /\ {<<x.customer_id, x.product_id, x.default_quantity>> : x \in customer_products'}
                 = {<<x.customer_id, x.product_id, x.default_quantity>> : x \in customer_products}
            /\ Cardinality(customer_products') = Cardinality(customer_products)
            /\ UNCHANGED <<customers, products, daily_sales, payments>>

\* C9: updateAllCustomPricesForProduct(P, price) sets custom_price = price on
\* every assignment row of P; rows of other products, every default_quantity
\* and the set of assigned pairs stay as they were.
C9_PropagateTouchesOnlyProduct == [][C9_PropagateStep]_vars

\* Both customers' rows of product 1 carry the propagated price while a row
\* of product 2 keeps another price.
C9_Witness ==
    /\ lastOp = "updateAllCustomPricesForProduct"
    /\ \A c \in CustomerIds : \E x \in customer_products :
          x.customer_id = c /\ x.product_id = 1 /\ x.custom_price = 3
    /\ \E x \in customer_products : x.product_id = 2 /\ x.custom_price = 2

PriceChangeOps == {"updateProduct", "updateAllCustomPricesForProduct",
                   "assignProductToCustomer"}

C10_PriceChangeStep ==
    lastOp' \in PriceChangeOps =>
        /\ daily_sales' = daily_sales
        /\ getCustomerDues' = getCustomerDues
        /\ \A c \in CustomerIds, d \in Dates :
               getTotalDuesForCustomerUpToDate(c, d)'
                   = getTotalDuesForCustomerUpToDate(c, d)

\* C10: updateProduct, updateAllCustomPricesForProduct and
\* assignProductToCustomer leave every recorded sale (price_per_unit,
\* total_amount) and so every customer's total due as they were.
C10_SalesKeepPriceSnapshot == [][C10_PriceChangeStep]_vars

\* A sale recorded at 2 per unit whose product now has default price 3.
C10_Witness ==
    /\ lastOp = "updateProduct"
    /\ \E s \in daily_sales, p \in products :
          /\ p.id = s.product_id
          /\ p.default_price = 3
          /\ s.price_per_unit = 2
          /\ s.total_amount = 4

\* C2: two Saves in the sale-entry modal for the same (customer, product,
\* date), each after the modal's own lookup, leave exactly one row for that
\* key: the row the first Save wrote, updated by the second Save and holding
\* its quantity, price and total.
C2_SecondSaveUpdatesSameRow ==
    (lastSave # NULL /\ lastSave[1].saves = 2) =>
        LET l == lastSave[1]
            rows == getSaleForCustomerProductAndDate(l.key[1], l.key[2], l.key[3])
        IN /\ Cardinality(rows) = 1
           /\ l.call = "updateSale"
           /\ \A s \in rows : /\ s.id = l.firstId
                              /\ s.quantity = l.qty
                              /\ s.price_per_unit = l.rate
                              /\ s.total_amount = l.qty * l.rate

\* The rates the sale-entry modal proposes for product p of customer c on a
\* date d without a sale: the saleRate left by handleProductSelect for each
\* product the modal offers.
ProposedRates(c, p, d) ==
    {o.saleRate : o \in {x \in UNION {handleProductSelect(prod, c, d)
                                       : prod \in {y \in getCustomerProducts(c) : y.id = p}}
                          : x.existingSale = NULL}}

\* C11: the rate proposed for a new entry of an assigned (customer, product)
\* pair is the assignment's custom_price, for a pair without assignment the
\* product's default_price, and it is never empty or zero.
C11_ProposedRateIsEffectivePrice ==
    \A c \in CustomerIds, p \in products, d \in Dates :
        \A rate \in ProposedRates(c, p.id, d) :
            LET assigned == {cp \in customer_products :
                                cp.customer_id = c /\ cp.product_id = p.id}
            IN /\ rate \notin {"", "0"}
               /\ \A cp \in assigned : rate = String(cp.custom_price)
               /\ assigned = {} => rate = String(p.default_price)

C12_NoHardDelete == \A id \in 1..seq.customers : CustomerExists(id)

C12_DeactivateStep ==
    lastOp' = "deleteCustomer" =>
        \E id \in CustomerIds :
            /\ customers' = {IF c.id = id THEN [c EXCEPT !.isActive = 0] ELSE c
                             : c \in customers}
            /\ daily_sales' = daily_sales
            /\ payments' = payments
            /\ customer_products' = customer_products
            /\ \A d \in Dates :
                   getTotalDuesForCustomerUpToDate(id, d)'
                       = getTotalDuesForCustomerUpToDate(id, d)

C13_ActiveListsHideInactive ==
    \A c \in customers :
        LET rows == IF c.isActive = 1 THEN 1 ELSE 0
        IN /\ Cardinality({x \in getAllCustomers : x = c.id}) = rows
           /\ Cardinality({r \in getCustomerDues : r.id = c.id}) = rows
           /\ \A startDate \in Dates, endDate \in Dates :
                  Cardinality({r \in getComprehensiveCustomerDues(startDate, endDate)
                               : r.id = c.id}) = rows

\* Customer 1, with a sale and an assignment, is deactivated while customer 2
\* is active: the lists hold customer 2 only.
C13_Witness ==
    /\ \E c \in customers : c.id = 1 /\ c.isActive = 0
    /\ \E c \in customers : c.id = 2 /\ c.isActive = 1
    /\ \E s \in daily_sales : s.customer_id = 1
    /\ \E cp \in customer_products : cp.customer_id = 1
    /\ getAllCustomers = {2}
    /\ {r.id : r \in getCustomerDues} = {2}

ExpenseOpNames == {"addExpense", "updateExpense", "deleteExpense"}

C14_ExpenseStep ==
    lastOp' \in ExpenseOpNames =>
        /\ getCustomerDues' = getCustomerDues
        /\ \A c \in CustomerIds, d \in Dates :
               getTotalDuesForCustomerUpToDate(c, d)'
                   = getTotalDuesForCustomerUpToDate(c, d)
        /\ \A startDate \in Dates : \A endDate \in startDate..MaxDate :
               /\ getComprehensiveCustomerDues(startDate, endDate)'
                      = getComprehensiveCustomerDues(startDate, endDate)
               /\ getTotalSalesForPeriod(startDate, endDate)'
                      = getTotalSalesForPeriod(startDate, endDate)
               /\ (profit(startDate, endDate) - profit(startDate, endDate)')
                      = (getTotalExpensesForPeriod(startDate, endDate)'
                           - getTotalExpensesForPeriod(startDate, endDate))

\* C14: addExpense, updateExpense and deleteExpense leave every customer's
\* due (getTotalDuesForCustomerUpToDate, getCustomerDues) and the period
\* sales and payments figures as they were; the profit changes by exactly the
\* change of getTotalExpensesForPeriod.
C14_ExpensesNeverTouchDues == [][C14_ExpenseStep]_vars

\* An expense was just added while customer 1 owes 3 - 1: the expense total
\* is 2 and the due is still 2.
C14_Witness ==
    /\ lastOp = "addExpense"
    /\ getTotalExpensesForPeriod(1, MaxDate) = 2
    /\ \E p \in payments : p.customer_id = 1
    /\ getTotalDuesForCustomerUpToDate(1, MaxDate) = 2
    /\ profit(1, MaxDate) = 1

\* The period_sales and period_payments columns of customer c's row.
PeriodFigures(c, startDate, endDate) ==
    {<<r.period_sales, r.period_payments>>
     : r \in {x \in getComprehensiveCustomerDues(startDate, endDate) : x.id = c}}

\* C15: for start <= end < end2 the period totals are additive over the
\* adjoining ranges [start, end] and [end + 1, end2]: getTotalSalesForPeriod
\* and, per customer, period_sales and period_payments of
\* getComprehensiveCustomerDues.
C15_PeriodTotalsAreAdditive ==
    \A start \in Dates, end \in Dates, end2 \in Dates :
        (start <= end /\ end < end2) =>
            /\ getTotalSalesForPeriod(start, end) + getTotalSalesForPeriod(end + 1, end2)
                  = getTotalSalesForPeriod(start, end2)
            /\ \A c \in CustomerIds :
                  \A a \in PeriodFigures(c, start, end),
                     b \in PeriodFigures(c, end + 1, end2),
                     whole \in PeriodFigures(c, start, end2) :
                       /\ a[1] + b[1] = whole[1]
                       /\ a[2] + b[2] = whole[2]

\* Customer 1 has a sale on day 2 and a sale on day 3 (end = 2, end + 1 = 3)
\* and a payment: each sale is counted once in the total of days 1..3.
C15_Witness ==
    /\ \E s \in daily_sales : s.customer_id = 1 /\ s.sale_date = 2
    /\ \E s \in daily_sales : s.customer_id = 1 /\ s.sale_date = 3
    /\ \E p \in payments : p.customer_id = 1 /\ p.payment_date = 2
    /\ getTotalSalesForPeriod(1, 2) = 3
    /\ getTotalSalesForPeriod(3, 3) = 3
    /\ getTotalSalesForPeriod(1, 3) = 6
    /\ PeriodFigures(1, 1, 3) = {<<6, 1>>}

\* C16: a Save with a negative quantity or price is rejected before any
\* storage call, so no row written by the sale-entry modal holds a negative
\* quantity or price (0 is allowed).
C16_NoNegativeSaleStored ==
    \A s \in daily_sales : s.quantity >= 0 /\ s.price_per_unit >= 0

SaleExists(id) == \E s \in daily_sales : s.id = id

\* The step is a storage call addressed to a customer, product or sale id
\* that does not exist.
C17_CallOnMissingId ==
    \/ \E id \in SaleIds :
          /\ ~SaleExists(id)
          /\ updateSale(id, 2, 3, Today) \/ deleteSale(id)
    \/ \E c \in CustomerIds :
          /\ ~CustomerExists(c)
          /\ \/ updateCustomer(c)
             \/ deleteCustomer(c)
             \/ recordPayment(c, 1, Today)
             \/ \E p \in ProductIds : recordSale(c, p, 1, 2, Today)
    \/ \E p \in ProductIds :
          /\ ~ProductExists(p)
          /\ \/ updateProduct(p, 3)
             \/ \E c \in CustomerIds : recordSale(c, p, 1, 2, Today)

\* C17: updateSale, deleteSale, updateCustomer, deleteCustomer, updateProduct,
\* recordPayment and recordSale addressed to an id that does not exist reject
\* (report a failure to the caller) instead of resolving with no effect.
C17_MissingIdIsReported == [][C17_CallOnMissingId => thrown' # NULL]_vars

\* C18: after an existing sale was shown in the modal, another date was
\* picked and Save was pressed, no row is left at the old (customer, product,
\* date) key, the old row is not left behind unchanged, and exactly one row
\* is at the target date.
C18_DateChangeMovesEntry ==
    (dateChangedFrom # NULL /\ ~screen.modalVisible) =>
        LET old == dateChangedFrom[1]
        IN /\ old \notin daily_sales
           /\ getSaleForCustomerProductAndDate(
                  old.customer_id, old.product_id, old.sale_date) = {}
           /\ Cardinality(getSaleForCustomerProductAndDate(
                  old.customer_id, old.product_id, screen.selectedDate)) = 1

\* C19: on a statement the sale lines sum to the period-sales figure printed
\* on it and the payment lines to the period-payments figure.
C19_LinesSumToPeriodFigures ==
    statement # NULL =>
        /\ SumTotalAmount(statement[1].sales) = statement[1].summary.periodSales
        /\ SumAmountPaid(statement[1].payments) = statement[1].summary.periodPayments
        /\ \A c \in CustomerIds, startDate \in Dates, endDate \in Dates :
              /\ SumTotalAmount(getSalesForCustomer(c, startDate, endDate))
                    = generateBillPDF(c, startDate, endDate).totalSalesAmount
              /\ SumAmountPaid(getPaymentsForCustomer(c, startDate, endDate))
                    = generateBillPDF(c, startDate, endDate).totalPaymentsAmount

\* C20: a finished backup is the view of one single state the database was
\* in while the backup ran (every write is reflected in all of it or in none
\* of it), and every sale and payment in it references a customer in it.
C20_BackupIsOneSnapshot ==
    (backup # NULL /\ backup[1].pending = {}) =>
        LET data == backup[1].data
        IN /\ \E view \in backup[1].seen : \A table \in BackupTables :
                  data[table] = view[table]
           /\ \A s \in data["sales"] : \E c \in data["customers"] : c.id = s.customer_id
           /\ \A p \in data["payments"] : \E c \in data["customers"] : c.id = p.customer_id

\* C21: initDatabase is all-or-nothing: when it has resolved, the six tables,
\* the migrated expenses columns and the four indexes all exist; when it has
\* rejected, the schema is the one it started from.
C21_InitIsAllOrNothing ==
    /\ initState.result = "resolved" => schema = CompleteSchema
    /\ initState.result = "rejected" => schema = initState.before

\* C30: the screens are mounted, and a storage call is made, only after
\* initDatabase has resolved; once it has rejected the application stays on
\* the initializing view.
C30_NothingBeforeInit ==
    /\ (Mounted \/ lastOp # "initDatabase") => initState.result = "resolved"
    /\ initState.result = "rejected" => ~Mounted /\ lastOp = "initDatabase"

\* On a database file that was not complete, the application was let in and
\* recorded a sale.
C30_Witness ==
    /\ Mounted
    /\ lastOp = "recordSale"
    /\ thrown = NULL
    /\ initState.before # CompleteSchema
\* C22: at every moment at most one storage call has been started and has
\* not completed.
C22_OneStorageCallAtATime == Cardinality(InFlight) <= 1
\* C28: when "Save Customer Assignments" has completed successfully, the
\* products getCustomerProducts returns for the customer are exactly the
\* products that were checked in the form when Save was pressed.
C28_StoredAssignmentsAreTheCheckedOnes ==
    manageProducts.alert = Val("Success") =>
        {a.id : a \in getCustomerProducts(manageProducts.customerId[1])}
            = DOMAIN manageProducts.submitted
\* C23: in the global product editor updateAllCustomPricesForProduct is
\* started only after updateProduct has resolved and "Yes, Update All" was
\* chosen; "No, Keep Custom Prices" and a rejected updateProduct leave every
\* custom_price as it was.
C23_PropagateOnlyOnYesStep ==
    LET changed == customer_products' # customer_products
        started == /\ productEditor'.pending # NULL
                   /\ productEditor'.pending # productEditor.pending
                   /\ productEditor'.pending[1].name = "updateAllCustomPricesForProduct"
    IN /\ started => productEditor.updated /\ productEditor'.choice = Val("Yes")
       /\ (changed /\ lastOp' # "assignProductToCustomer") =>
              /\ productEditor.updated
              /\ productEditor.choice = Val("Yes")
              /\ lastOp' = "updateAllCustomPricesForProduct"
       /\ (productEditor'.choice = Val("No") /\ productEditor.choice # Val("No")) =>
              ~changed
       /\ thrown' # NULL => ~changed

C23_PropagateOnlyOnYes == [][C23_PropagateOnlyOnYesStep]_vars

\* The price of a product was changed to one no customer had, "Yes, Update
\* All" was chosen and the custom prices follow; nothing else wrote them.
C23_Witness ==
    /\ lastOp = "updateAllCustomPricesForProduct"
    /\ thrown = NULL
    /\ productEditor.choice = Val("Yes")
    /\ \E cp \in customer_products : cp.custom_price = 3
\* What one Save of the assignment form, every call of it succeeding, makes
\* of the table `origin`.
ExpectedAssignments(origin, customerId, submitted) ==
    {cp \in origin : ~(cp.customer_id = customerId /\ cp.product_id \in DOMAIN submitted)}
    \cup {[customer_id |-> customerId, product_id |-> id,
            custom_price |-> submitted[id].custom_price,
            default_quantity |-> submitted[id].default_quantity] : id \in DOMAIN submitted}

\* C24: a step that fails writes nothing, so what was committed stays; and
\* when a bulk operation (the Save of a customer's assignments, or
\* updateProduct followed by updateAllCustomPricesForProduct) succeeds,
\* possibly on being repeated with the same inputs after a failure, the
\* tables are what one run with every step succeeding makes of the tables
\* the operation was first started on.
C24_RetryStep ==
    /\ thrown' = StorageFailed => UNCHANGED <<customer_products, products>>
    /\ (manageProducts'.alert = Val("Success") /\ manageProducts.alert # Val("Success")) =>
          customer_products' =
              ExpectedAssignments(manageProducts'.origin, manageProducts'.customerId[1],
                                  manageProducts'.submitted)
    /\ (/\ productEditor'.alert = Val([title |-> "Success"])
        /\ productEditor.alert # productEditor'.alert
        /\ productEditor'.choice = Val("Yes")) =>
          LET origin == productEditor'.origin[1]
          IN /\ products' = {IF p.id = origin.id
                                THEN [p EXCEPT !.default_price = origin.price] ELSE p
                              : p \in origin.products}
             /\ customer_products' =
                    {IF cp.product_id = origin.id
                       THEN [cp EXCEPT !.custom_price = origin.price] ELSE cp
                     : cp \in origin.customer_products}

C24_BulkOperationsAreRetryable == [][C24_RetryStep]_vars

\* A Save of two assignments failed after one of them was written, was
\* repeated with the same form and succeeded.
C24_Witness ==
    /\ manageProducts.alert = Val("Success")
    /\ manageProducts.retried
    /\ Cardinality(DOMAIN manageProducts.submitted) = 2
    /\ customer_products # manageProducts.origin
\* C25: the customer form never starts addCustomer or updateCustomer with a
\* blank name or with a non-empty phone number that does not have exactly 10
\* characters, and one visit of the form starts at most one call.
C25_NoCallWithInvalidFields ==
    /\ \A i \in 1..Len(customerForm.pending) :
          /\ trim(customerForm.pending[i].name) # <<>>
          /\ customerForm.pending[i].phone # <<>> =>
                Len(customerForm.pending[i].phone) = PhoneLength
    /\ Len(customerForm.pending) <= 1

\* C26: whenever Save can be pressed in the sale-entry modal, the existingSale
\* it holds is a stored sale of the selected customer, product and date, or
\* none when no such sale is stored.
C26_ExistingSaleIsTheStoredRow ==
    (/\ screen.modalVisible
     /\ screen.selectedProduct # NULL
     /\ screen.qty # ""
     /\ screen.saleRate # "") =>
        LET rows == getSaleForCustomerProductAndDate(
                        screen.selectedCustomer[1], screen.selectedProduct[1].id,
                        screen.selectedDate)
        IN IF rows = {} THEN screen.existingSale = NULL
           ELSE screen.existingSale # NULL /\ screen.existingSale[1] \in rows

\* C27: after Save was pressed twice for a key without a stored sale, the
\* second time before the first save completed, and both saves completed,
\* at most one sale is stored for that key.
C27_DoubleSaveInsertsOnce ==
    (screen.doubleSave # NULL /\ screen.pendingSaves = <<>>) =>
        Cardinality(getSaleForCustomerProductAndDate(
                        screen.doubleSave[1][1], screen.doubleSave[1][2],
                        screen.doubleSave[1][3])) <= 1
\* C29: for every active customer, the Total Due of the customer detail
\* screen equals the total_due that getCustomerDues and
\* getComprehensiveCustomerDues report for that customer in the same state.
C29_DetailTotalDueIsListedTotalDue ==
    \A c \in getAllCustomers :
        /\ \A r \in getCustomerDues : r.id = c => r.total_due = detailTotalDue(c)
        /\ \A r \in getComprehensiveCustomerDues(StartOfMonth, Today) :
               r.id = c => r.total_due = detailTotalDue(c)
====
